---- MODULE Spec2Model ----
(***************************************************************************)
(* A model of afero-s3: a hierarchical filesystem (Fs, File, Lister)       *)
(* emulated over a flat S3 object store.                                   *)
(*                                                                         *)
(* Strings (paths, keys) are sequences of one-character strings, bodies    *)
(* are sequences of small integers (bytes).  The storage collaborator      *)
(* (S3APISubset) is modelled as a map from keys to bodies together with    *)
(* the log of the calls issued by the operation in progress; any one call  *)
(* of an operation may fail with a transport error.                        *)
(***************************************************************************)
EXTENDS Integers, Sequences, FiniteSets, TLC

VARIABLES store, file, ghost, last, rn, rt, fss, conc

vars == <<store, file, ghost, last, rn, rt, fss, conc>>

-----------------------------------------------------------------------------
(* Bounds of the model *)

\* longest body a handle may accumulate
MaxBody == 2
\* most objects the bucket may hold at once
MaxObjects == 3
\* largest read buffer passed to Read
MaxRead == 2
\* largest index of the storage call of one operation that may fail
MaxFail == 4
\* largest offset a handle may be moved to
MaxOffset == 2

\* the largest offset a handle is followed to: a Read past the largest Seek
MaxReach == MaxOffset + MaxRead

Byte == {1, 2}

PathSeparator == <<"/">>

\* upper limit of objects per LIST request (Lister), and the skip chunk of File.skipBytes
maxObjectsPerRequest == 1000
skipChunk == 1024

-----------------------------------------------------------------------------
(* Notation *)

\* F of the value x: names the result of a call for the code that follows it
Then(x, F(_)) == F(x)

Min(a, b) == IF a < b THEN a ELSE b

-----------------------------------------------------------------------------
(* Strings *)

CharOrd(c) == CASE c = "." -> 46 [] c = "/" -> 47 [] c = "a" -> 97 [] c = "b" -> 98 [] OTHER -> 0

RECURSIVE LexLess(_, _)
LexLess(s, t) ==
    IF s = <<>> THEN t # <<>>
    ELSE IF t = <<>> THEN FALSE
    ELSE IF Head(s) = Head(t) THEN LexLess(Tail(s), Tail(t))
    ELSE CharOrd(Head(s)) < CharOrd(Head(t))

HasPrefix(s, p) == Len(p) <= Len(s) /\ SubSeq(s, 1, Len(p)) = p

hasTrailingSlash(s) == Len(s) > 0 /\ s[Len(s)] = "/"

trimLeadingSlash(s) == IF Len(s) > 0 /\ s[1] = "/" THEN Tail(s) ELSE s

RECURSIVE trimTrailingSlash(_)
trimTrailingSlash(s) ==
    IF Len(s) > 0 /\ s[Len(s)] = "/" THEN trimTrailingSlash(SubSeq(s, 1, Len(s) - 1)) ELSE s

addTrailingSlash(s) == IF Len(s) > 0 /\ s[Len(s)] # "/" THEN s \o PathSeparator ELSE s

RECURSIVE depth(_)
depth(s) == IF s = <<>> THEN 0 ELSE (IF Head(s) = "/" THEN 1 ELSE 0) + depth(Tail(s))

\* the elements of s between separators, empty elements dropped
RECURSIVE Elements(_, _, _, _)
Elements(s, i, cur, acc) ==
    IF i > Len(s) THEN (IF cur = <<>> THEN acc ELSE Append(acc, cur))
    ELSE IF s[i] = "/" THEN Elements(s, i + 1, <<>>, IF cur = <<>> THEN acc ELSE Append(acc, cur))
    ELSE Elements(s, i + 1, Append(cur, s[i]), acc)

\* path.Clean's treatment of "." and ".." elements
RECURSIVE CleanElements(_, _, _, _)
CleanElements(els, i, rooted, out) ==
    IF i > Len(els) THEN out
    ELSE IF els[i] = <<".">> THEN CleanElements(els, i + 1, rooted, out)
    ELSE IF els[i] = <<".", ".">> THEN
        IF Len(out) > 0 /\ out[Len(out)] # <<".", ".">>
        THEN CleanElements(els, i + 1, rooted, SubSeq(out, 1, Len(out) - 1))
        ELSE IF rooted THEN CleanElements(els, i + 1, rooted, out)
        ELSE CleanElements(els, i + 1, rooted, Append(out, els[i]))
    ELSE CleanElements(els, i + 1, rooted, Append(out, els[i]))

RECURSIVE JoinElements(_)
JoinElements(els) ==
    IF els = <<>> THEN <<>>
    ELSE IF Len(els) = 1 THEN els[1]
    ELSE els[1] \o PathSeparator \o JoinElements(Tail(els))

\* path.Clean
Clean(s) ==
    IF s = <<>> THEN <<".">>
    ELSE Then(JoinElements(CleanElements(Elements(s, 1, <<>>, <<>>), 1, s[1] = "/", <<>>)), LAMBDA body :
             IF s[1] = "/" THEN PathSeparator \o body
             ELSE IF body = <<>> THEN <<".">> ELSE body)

\* index of the last separator of s, or 0
RECURSIVE LastSlash(_, _)
LastSlash(s, i) == IF i = 0 THEN 0 ELSE IF s[i] = "/" THEN i ELSE LastSlash(s, i - 1)

\* a split at the first separator
SplitAtFirstSlash(s) ==
    LET i == IF LastSlash(s, Len(s)) = 0 THEN 0 ELSE Min(LastSlash(s, Len(s)), 1)
    IN  [dir |-> SubSeq(s, 1, i), file |-> SubSeq(s, i + 1, Len(s))]

\* path.Split: s = dir \o file, file has no separator
Split(s) ==
    LET i == LastSlash(s, Len(s))
    IN  [dir |-> SubSeq(s, 1, i), file |-> SubSeq(s, i + 1, Len(s))]

\* path.Join of two elements
Join(a, b) ==
    IF a = <<>> /\ b = <<>> THEN <<>>
    ELSE IF a = <<>> THEN Clean(b)
    ELSE IF b = <<>> THEN Clean(a)
    ELSE Clean(a \o PathSeparator \o b)

-----------------------------------------------------------------------------
(* The storage collaborator: a bucket of objects and the calls issued on it *)

EmptyStore == [k \in {} |-> <<>>]

PutKey(s, k, b) == [x \in (DOMAIN s) \cup {k} |-> IF x = k THEN b ELSE s[x]]

DeleteKey(s, k) == [x \in (DOMAIN s) \ {k} |-> s[x]]

\* the body of the object at k, empty when there is none
Content(s, k) == IF k \in DOMAIN s THEN s[k] ELSE <<>>

\* The key an object request addresses: the SDK builds the request path
\* /bucket/key and cleans it, keeping a trailing separator, so that a leading
\* separator of the key is dropped.  LIST carries its prefix as a parameter and
\* takes it literally (hence trimLeadingSlash at the LIST call sites).
S3Key(key) ==
    Then(Clean(PathSeparator \o key), LAMBDA c :
        trimLeadingSlash(IF hasTrailingSlash(key) /\ ~hasTrailingSlash(c) THEN c \o PathSeparator ELSE c))

\* a world: the bucket, the calls issued so far by the running operation, the
\* index of the call that is to fail (0: none), the server's page limit, the
\* order in which a string set is iterated (ascending, or descending), and
\* whether the server reports every page as truncated
World(s, fail, page) ==
    [store |-> s, calls |-> <<>>, fail |-> fail, page |-> page, rev |-> FALSE, always |-> FALSE]

WorldOrder(s, fail, page, rev, always) ==
    [World(s, fail, page) EXCEPT !.rev = rev, !.always = always]

Fails(w) == Len(w.calls) + 1 = w.fail

\* more: the reply of a LIST was truncated
Call(op, key, src, body, n, res) ==
    [op |-> op, key |-> key, src |-> src, body |-> body, n |-> n, res |-> res, more |-> FALSE]

Log(w, c) == [w EXCEPT !.calls = Append(@, c)]

HeadObject(w, key) ==
    Then(S3Key(key), LAMBDA k :
        LET res == IF Fails(w) THEN "fail" ELSE IF k \in DOMAIN w.store THEN "ok" ELSE "notfound"
        IN  [w |-> Log(w, Call("HEAD", key, <<>>, <<>>, 0, res)),
             res |-> res,
             size |-> IF res = "ok" THEN Len(w.store[k]) ELSE 0])

GetObject(w, key) ==
    Then(S3Key(key), LAMBDA k :
        LET res == IF Fails(w) THEN "fail" ELSE IF k \in DOMAIN w.store THEN "ok" ELSE "notfound"
        IN  [w |-> Log(w, Call("GET", key, <<>>, <<>>, 0, res)),
             res |-> res,
             body |-> IF res = "ok" THEN w.store[k] ELSE <<>>])

PutObject(w, key, body) ==
    Then(S3Key(key), LAMBDA k :
        LET res == IF Fails(w) \/ k = <<>> THEN "fail" ELSE "ok"
            w1 == Log(w, Call("PUT", key, <<>>, body, 0, res))
        IN  [w |-> IF res = "ok" THEN [w1 EXCEPT !.store = PutKey(@, k, body)] ELSE w1,
             res |-> res])

DeleteObject(w, key) ==
    Then(S3Key(key), LAMBDA k :
        LET res == IF Fails(w) THEN "fail" ELSE "ok"
            w1 == Log(w, Call("DELETE", key, <<>>, <<>>, 0, res))
        IN  [w |-> IF res = "ok" THEN [w1 EXCEPT !.store = DeleteKey(@, k)] ELSE w1,
             res |-> res])

\* CopySource is bucket + oldname: the server splits it at the first
\* separator, so the source key is oldname without its leading separator
CopyObject(w, oldname, key) ==
    Then(S3Key(key), LAMBDA k :
        LET hasSrc == Len(oldname) > 0 /\ oldname[1] = "/" /\ Tail(oldname) \in DOMAIN w.store
            res == IF Fails(w) \/ k = <<>> THEN "fail" ELSE IF hasSrc THEN "ok" ELSE "notfound"
            w1 == Log(w, Call("COPY", key, oldname, <<>>, 0, res))
        IN  [w |-> IF res = "ok" THEN [w1 EXCEPT !.store = PutKey(@, k, w.store[Tail(oldname)])] ELSE w1,
             res |-> res])

RECURSIVE SortKeys(_)
SortKeys(S) ==
    IF S = {} THEN <<>>
    ELSE LET m == CHOOSE x \in S : \A y \in S \ {x} : LexLess(x, y)
         IN  <<m>> \o SortKeys(S \ {m})

\* index of the first separator of s at or after position i, or 0
RECURSIVE FirstSlash(_, _)
FirstSlash(s, i) == IF i > Len(s) THEN 0 ELSE IF s[i] = "/" THEN i ELSE FirstSlash(s, i + 1)

\* the listing item a key contributes: itself, or the common prefix that
\* groups it when a delimiter is given
ListItem(k, prefix, delim) ==
    LET i == FirstSlash(k, Len(prefix) + 1)
    IN  IF delim /\ i > 0 THEN [cp |-> TRUE, key |-> SubSeq(k, 1, i)]
        ELSE [cp |-> FALSE, key |-> k]

RECURSIVE ListItems(_, _, _, _)
ListItems(keys, prefix, delim, acc) ==
    IF keys = <<>> THEN acc
    ELSE LET it == ListItem(Head(keys), prefix, delim)
         IN  ListItems(Tail(keys), prefix, delim,
                       IF Len(acc) > 0 /\ acc[Len(acc)] = it THEN acc ELSE Append(acc, it))

NoToken == [nil |-> TRUE, after |-> <<>>]

SelectItems(items, cp) == SelectSeq(items, LAMBDA it : it.cp = cp)

\* the reply of a LIST whose matching items after the token are rest; a
\* request for no keys is answered by an empty page that is not truncated, a
\* negative MaxKeys is rejected as an invalid argument
ListPage(w, prefix, maxKeys, rest, token) ==
    LET limit == Min(maxKeys, w.page)
        pageItems == IF limit > 0 THEN SubSeq(rest, 1, Min(Len(rest), limit)) ELSE <<>>
        truncated == w.always \/ (limit > 0 /\ Len(rest) > limit)
        res == IF Fails(w) \/ maxKeys < 0 THEN "fail" ELSE "ok"
        cps == SelectItems(pageItems, TRUE)
        objs == SelectItems(pageItems, FALSE)
    IN  [w |-> Log(w, [Call("LIST", prefix, <<>>, <<>>, maxKeys, res) EXCEPT !.more = truncated /\ res = "ok"]),
         res |-> res,
         CommonPrefixes |-> [i \in 1..Len(cps) |-> cps[i].key],
         Contents |-> [i \in 1..Len(objs) |-> [Key |-> objs[i].key, Size |-> Len(w.store[objs[i].key])]],
         NextContinuationToken |-> IF ~truncated THEN NoToken
                                   ELSE IF pageItems # <<>>
                                   THEN [nil |-> FALSE, after |-> pageItems[Len(pageItems)].key]
                                   ELSE [nil |-> FALSE, after |-> token.after],
         IsTruncated |-> truncated,
         KeyCount |-> Len(pageItems)]

\* ListObjectsV2: one page of at most min(maxKeys, page limit) keys and common
\* prefixes, in key order, starting after the continuation token
ListObjectsV2(w, prefix, delim, token, maxKeys) ==
    Then(ListItems(SortKeys({k \in DOMAIN w.store : HasPrefix(k, prefix)}), prefix, delim, <<>>), LAMBDA items :
        ListPage(w, prefix, maxKeys,
                 IF token.nil THEN items ELSE SelectSeq(items, LAMBDA it : LexLess(token.after, it.key)),
                 token))

-----------------------------------------------------------------------------
(* FileInfo *)

\* path.Dir
Dir(s) == Clean(Split(s).dir)

\* the zero FileInfo{} returned beside an error
NoFileInfo ==
    [parent |-> <<>>, name |-> <<>>, directory |-> FALSE, sizeInBytes |-> 0, modTime |-> 0, depth |-> 0]

\* modTime: 0 is the zero time.Time, 1 a time reported by the store
NewFileInfo(name, sizeInBytes, modTime) ==
    Then(Split(trimTrailingSlash(name)), LAMBDA sp :
        [parent |-> sp.dir, name |-> sp.file, directory |-> FALSE,
         sizeInBytes |-> sizeInBytes, modTime |-> modTime, depth |-> depth(sp.dir)])

NewDirectoryInfo(name) ==
    Then(Split(trimTrailingSlash(name)), LAMBDA sp :
        [parent |-> sp.dir, name |-> sp.file, directory |-> TRUE,
         sizeInBytes |-> 0, modTime |-> 0, depth |-> depth(sp.dir)])

-----------------------------------------------------------------------------
(* Fs.Stat *)

\* statDirectory that takes any prefix for a directory
statDirectoryAnyPrefix(w, name) ==
    Then(ListObjectsV2(w, trimLeadingSlash(Clean(name)), FALSE, NoToken, 1), LAMBDA out :
        IF out.res # "ok" THEN [w |-> out.w, err |-> "transport", fi |-> NoFileInfo]
        ELSE [w |-> out.w, err |-> "nil", fi |-> NewDirectoryInfo(name)])

statDirectory(w, name) ==
    Then(ListObjectsV2(w, trimLeadingSlash(Clean(name)), FALSE, NoToken, 1), LAMBDA out :
        IF out.res # "ok" THEN [w |-> out.w, err |-> "transport", fi |-> NoFileInfo]
        ELSE IF out.KeyCount = 0 /\ name # <<>> THEN [w |-> out.w, err |-> "notexist", fi |-> NoFileInfo]
        ELSE [w |-> out.w, err |-> "nil", fi |-> NewDirectoryInfo(name)])

\* Stat that does not look at the trailing separator of the name
StatIgnoringSlash(w, name) ==
    Then(HeadObject(w, Clean(name)), LAMBDA out :
        IF out.res = "notfound" THEN statDirectory(out.w, name)
        ELSE IF out.res = "fail" THEN [w |-> out.w, err |-> "transport", fi |-> NoFileInfo]
        ELSE [w |-> out.w, err |-> "nil", fi |-> NewFileInfo(name, out.size, 1)])

Stat(w, name) ==
    Then(HeadObject(w, Clean(name)), LAMBDA out :
        IF out.res = "notfound" THEN statDirectory(out.w, name)
        ELSE IF out.res = "fail" THEN [w |-> out.w, err |-> "transport", fi |-> NoFileInfo]
        ELSE IF hasTrailingSlash(name) THEN [w |-> out.w, err |-> "notexist", fi |-> NoFileInfo]
        ELSE [w |-> out.w, err |-> "nil", fi |-> NewFileInfo(name, out.size, 1)])

-----------------------------------------------------------------------------
(* File *)

NilStream == [nil |-> TRUE, rest |-> <<>>]
NilBuf == [nil |-> TRUE, bytes |-> <<>>]

NewFile(name) ==
    [name |-> name, offset |-> 0, closed |-> FALSE, readCloser |-> NilStream, writeBuf |-> NilBuf]

\* the handle slot before any Open
NoFile == [alloc |-> FALSE, f |-> NewFile(<<>>)]

\* a stream read that consumes the n bytes asked for and hands over at most k
StreamReadLossy(rc, n, k) ==
    LET d == Min(Min(n, k), Len(rc.rest))
        used == Min(n, Len(rc.rest))
    IN  IF Len(rc.rest) = 0 THEN [rc |-> rc, n |-> 0, data |-> <<>>, err |-> "eof"]
        ELSE [rc |-> [rc EXCEPT !.rest = SubSeq(@, used + 1, Len(@))], n |-> d,
              data |-> SubSeq(rc.rest, 1, d), err |-> "nil"]

\* io.Reader.Read on the body of a GET: at most k bytes per call
StreamRead(rc, n, k) ==
    LET d == Min(Min(n, k), Len(rc.rest))
    IN  IF Len(rc.rest) = 0 THEN [rc |-> rc, n |-> 0, data |-> <<>>, err |-> "eof"]
        ELSE [rc |-> [rc EXCEPT !.rest = SubSeq(@, d + 1, Len(@))], n |-> d,
              data |-> SubSeq(rc.rest, 1, d), err |-> "nil"]

RECURSIVE skipLoop(_, _, _)
skipLoop(rc, toSkip, k) ==
    IF toSkip > skipChunk
    THEN Then(StreamRead(rc, skipChunk, k), LAMBDA r :
             IF r.err # "nil" THEN [rc |-> r.rc, toSkip |-> toSkip, err |-> r.err]
             ELSE skipLoop(r.rc, toSkip - skipChunk, k))
    ELSE [rc |-> rc, toSkip |-> toSkip, err |-> "nil"]

skipBytes(f, toSkip, k) ==
    IF f.readCloser.nil THEN [f |-> f, err |-> "nil"]
    ELSE Then(skipLoop(f.readCloser, toSkip, k), LAMBDA l :
             IF l.err # "nil" THEN [f |-> [f EXCEPT !.readCloser = l.rc], err |-> l.err]
             ELSE IF l.toSkip > 0
             THEN Then(StreamRead(l.rc, l.toSkip, k), LAMBDA r :
                      [f |-> [f EXCEPT !.readCloser = r.rc], err |-> r.err])
             ELSE [f |-> [f EXCEPT !.readCloser = l.rc], err |-> "nil"])

\* an openStream that fetches the object whether or not a stream is open
openStreamAlways(f, w, k) ==
    Then(GetObject(w, f.name), LAMBDA output :
        IF output.res # "ok"
        THEN [f |-> f, w |-> output.w,
              err |-> IF output.res = "notfound" THEN "nosuchkey" ELSE "transport"]
        ELSE Then(skipBytes([f EXCEPT !.readCloser = [nil |-> FALSE, rest |-> output.body]],
                            f.offset, k), LAMBDA sk :
                 [f |-> sk.f, w |-> output.w, err |-> sk.err]))

\* File.Read up to the opened stream: the GET and the skip to the offset
openStream(f, w, k) ==
    IF ~f.readCloser.nil THEN [f |-> f, w |-> w, err |-> "nil"]
    ELSE Then(GetObject(w, f.name), LAMBDA output :
             IF output.res # "ok"
             THEN [f |-> f, w |-> output.w,
                   err |-> IF output.res = "notfound" THEN "nosuchkey" ELSE "transport"]
             ELSE Then(skipBytes([f EXCEPT !.readCloser = [nil |-> FALSE, rest |-> output.body]],
                                 f.offset, k), LAMBDA sk :
                      [f |-> sk.f, w |-> output.w, err |-> sk.err]))

\* File.Read with a buffer of n bytes
Read(f, w, n, k) ==
    IF f.closed THEN [f |-> f, w |-> w, n |-> 0, data |-> <<>>, err |-> "panic"]
    ELSE IF n = 0 THEN [f |-> f, w |-> w, n |-> 0, data |-> <<>>, err |-> "nil"]
    ELSE Then(openStream(f, w, k), LAMBDA opened :
             IF opened.err # "nil"
             THEN [f |-> opened.f, w |-> opened.w, n |-> 0, data |-> <<>>, err |-> opened.err]
             ELSE Then(StreamRead(opened.f.readCloser, n, k), LAMBDA r :
                      [f |-> [opened.f EXCEPT !.readCloser = r.rc, !.offset = @ + r.n],
                       w |-> opened.w, n |-> r.n, data |-> r.data, err |-> r.err]))

\* File.Seek
Seek(f, offset, whence, k) ==
    CASE whence = 0 ->
            IF ~f.writeBuf.nil THEN [f |-> [f EXCEPT !.readCloser = NilStream], off |-> 0, err |-> "panic"]
            ELSE [f |-> [f EXCEPT !.readCloser = NilStream, !.offset = offset], off |-> offset, err |-> "nil"]
      [] whence = 1 ->
            Then(skipBytes(f, offset, k), LAMBDA sk :
                IF sk.err # "nil" THEN [f |-> sk.f, off |-> 0, err |-> sk.err]
                ELSE [f |-> [sk.f EXCEPT !.offset = @ + offset], off |-> f.offset + offset, err |-> "nil"])
      [] OTHER -> [f |-> f, off |-> 0, err |-> "panic"]

\* a Write that starts the buffer afresh
WriteDroppingOld(f, p) ==
    IF f.closed THEN [f |-> f, n |-> 0, err |-> "panic"]
    ELSE [f |-> [f EXCEPT !.writeBuf = [nil |-> FALSE, bytes |-> p]], n |-> Len(p), err |-> "nil"]

\* File.Write
Write(f, p) ==
    IF f.closed THEN [f |-> f, n |-> 0, err |-> "panic"]
    ELSE [f |-> [f EXCEPT !.writeBuf = [nil |-> FALSE, bytes |-> @.bytes \o p]], n |-> Len(p), err |-> "nil"]

WriteString(f, s) == Write(f, s)

\* File.ReadAt with a buffer of n bytes: Seek from the start, then Read
ReadAt(f, w, n, off, k) ==
    Then(Seek(f, off, 0, k), LAMBDA sk :
        IF sk.err # "nil" THEN [f |-> sk.f, w |-> w, n |-> 0, data |-> <<>>, err |-> sk.err]
        ELSE Read(sk.f, w, n, k))

\* File.WriteAt: Seek from the start, then Write
WriteAt(f, p, off) ==
    Then(Seek(f, off, 0, 1), LAMBDA sk :
        IF sk.err # "nil" THEN [f |-> sk.f, n |-> 0, err |-> sk.err]
        ELSE Write(sk.f, p))

\* a finaliseWrite that uploads whatever the offset
finaliseWriteAnywhere(f, w) ==
    IF f.closed THEN [w |-> w, err |-> "panic"]
    ELSE Then(PutObject(w, f.name, f.writeBuf.bytes), LAMBDA out :
             [w |-> out.w, err |-> IF out.res = "ok" THEN "nil" ELSE "transport"])

\* File.finaliseWrite
finaliseWrite(f, w) ==
    IF f.closed THEN [w |-> w, err |-> "panic"]
    ELSE IF f.offset # 0 THEN [w |-> w, err |-> "panic"]
    ELSE Then(PutObject(w, f.name, f.writeBuf.bytes), LAMBDA out :
             [w |-> out.w, err |-> IF out.res = "ok" THEN "nil" ELSE "transport"])

\* a Close that keeps the buffer and stays open when the upload fails
CloseRetrying(f, w) ==
    IF ~f.writeBuf.nil
    THEN Then(finaliseWrite([f EXCEPT !.readCloser = NilStream], w), LAMBDA fin :
             IF fin.err # "nil" THEN [f |-> [f EXCEPT !.readCloser = NilStream], w |-> fin.w, err |-> fin.err]
             ELSE [f |-> [f EXCEPT !.readCloser = NilStream, !.writeBuf = NilBuf, !.closed = TRUE, !.offset = 0],
                   w |-> fin.w, err |-> fin.err])
    ELSE [f |-> [f EXCEPT !.readCloser = NilStream, !.closed = TRUE, !.offset = 0], w |-> w, err |-> "nil"]

\* a Close that uploads before it releases the stream
CloseUploadFirst(f, w) ==
    IF ~f.writeBuf.nil
    THEN Then(finaliseWrite(f, w), LAMBDA fin :
             IF fin.err = "panic" THEN [f |-> f, w |-> fin.w, err |-> "panic"]
             ELSE [f |-> [f EXCEPT !.readCloser = NilStream, !.writeBuf = NilBuf, !.closed = TRUE, !.offset = 0],
                   w |-> fin.w, err |-> fin.err])
    ELSE [f |-> [f EXCEPT !.readCloser = NilStream, !.closed = TRUE, !.offset = 0], w |-> w, err |-> "nil"]

\* File.Close; a panic of finaliseWrite leaves the handle as it is at that point
Close(f, w) ==
    IF ~f.writeBuf.nil
    THEN Then(finaliseWrite([f EXCEPT !.readCloser = NilStream], w), LAMBDA fin :
             IF fin.err = "panic" THEN [f |-> [f EXCEPT !.readCloser = NilStream], w |-> fin.w, err |-> "panic"]
             ELSE [f |-> [f EXCEPT !.readCloser = NilStream, !.writeBuf = NilBuf, !.closed = TRUE, !.offset = 0],
                   w |-> fin.w, err |-> fin.err])
    ELSE [f |-> [f EXCEPT !.readCloser = NilStream, !.closed = TRUE, !.offset = 0], w |-> w, err |-> "nil"]

-----------------------------------------------------------------------------
(* Lister *)

\* stand-in for math.MaxInt64: the largest integer of the model
MaxInt == 2147483647

\* most pages one listing may fetch in the model
MaxPages == 6

Reverse(q) == [i \in 1..Len(q) |-> q[Len(q) + 1 - i]]

\* StringSet.ToList: the members in the iteration order of the set
ToList(S, rev) == IF rev THEN Reverse(SortKeys(S)) ELSE SortKeys(S)

RECURSIVE ParentDirs(_, _, _)
ParentDirs(parent, name, dirs) ==
    IF Len(parent) > Len(name)
    THEN ParentDirs(trimTrailingSlash(Dir(parent)), name, dirs \cup {parent})
    ELSE dirs

\* the entries of the Contents of one page and the set of synthesized directories
RECURSIVE ListContents(_, _, _, _, _, _)
ListContents(contents, i, name, filesOnly, fis, dirs) ==
    IF i > Len(contents) THEN [fis |-> fis, dirs |-> dirs]
    ELSE LET key == contents[i].Key
             p == PathSeparator \o key
         IN  IF hasTrailingSlash(key)
             THEN IF ~filesOnly
                  THEN LET dir == NewDirectoryInfo(p)
                       IN  ListContents(contents, i + 1, name, filesOnly, Append(fis, dir),
                                        ParentDirs(trimTrailingSlash(dir.parent), name, dirs))
                  ELSE ListContents(contents, i + 1, name, filesOnly, fis, dirs)
             ELSE ListContents(contents, i + 1, name, filesOnly,
                               Append(fis, NewFileInfo(p, contents[i].Size, 1)), dirs)

\* the entries of one page: the common prefixes, the Contents, the synthesized
\* directories
pageEntries(output, name, filesOnly) ==
    Then(ListContents(output.Contents, 1, name, filesOnly,
                      [i \in 1..Len(output.CommonPrefixes) |->
                          NewDirectoryInfo(PathSeparator \o output.CommonPrefixes[i])], {}), LAMBDA lc :
        Then(ToList(lc.dirs, output.w.rev), LAMBDA ds :
            lc.fis \o [i \in 1..Len(ds) |-> NewDirectoryInfo(ds[i])]))

doListObjects(w, name, delim, n, filesOnly, continuationToken) ==
    Then(ListObjectsV2(w, trimLeadingSlash(name) \o PathSeparator, delim, continuationToken, n), LAMBDA output :
        IF output.res # "ok"
        THEN [w |-> output.w, fis |-> <<>>, token |-> NoToken, hasMore |-> FALSE, err |-> "transport"]
        ELSE [w |-> output.w,
              fis |-> pageEntries(output, name, filesOnly),
              token |-> output.NextContinuationToken,
              hasMore |-> output.IsTruncated,
              err |-> "nil"])

RECURSIVE ListLoop(_, _, _, _, _, _, _, _)
\* a loop that returns the entries of the pages fetched before a failure
ListLoopKeepingPages(w, name, delim, max, filesOnly, continuationToken, fileInfos, pages) ==
    IF pages = 0 THEN [w |-> w, fis |-> <<>>, err |-> "diverges"]
    ELSE Then(doListObjects(w, name, delim, Min(maxObjectsPerRequest, max), filesOnly, continuationToken), LAMBDA r :
             IF r.err # "nil" THEN [w |-> r.w, fis |-> fileInfos, err |-> r.err]
             ELSE IF r.hasMore
             THEN ListLoop(r.w, name, delim, max - Len(r.fis), filesOnly, r.token,
                           fileInfos \o r.fis, pages - 1)
             ELSE [w |-> r.w, fis |-> fileInfos \o r.fis, err |-> "nil"])

ListLoop(w, name, delim, max, filesOnly, continuationToken, fileInfos, pages) ==
    IF pages = 0 THEN [w |-> w, fis |-> <<>>, err |-> "diverges"]
    ELSE Then(doListObjects(w, name, delim, Min(maxObjectsPerRequest, max), filesOnly, continuationToken), LAMBDA r :
             IF r.err # "nil" THEN [w |-> r.w, fis |-> <<>>, err |-> r.err]
             ELSE IF r.hasMore
             THEN ListLoop(r.w, name, delim, max - Len(r.fis), filesOnly, r.token,
                           fileInfos \o r.fis, pages - 1)
             ELSE [w |-> r.w, fis |-> fileInfos \o r.fis, err |-> "nil"])

\* Lister.ListObjects
ListObjects(w, name, delim, max, filesOnly) ==
    ListLoop(w, name, delim, IF max <= 0 THEN MaxInt ELSE max, filesOnly, NoToken, <<>>, MaxPages)

\* File.Readdir
Readdir(f, w, n) == ListObjects(w, f.name, TRUE, n, TRUE)

-----------------------------------------------------------------------------
(* Fs *)

\* Fs.Open
Open(w, name) ==
    Then(Stat(w, name), LAMBDA st :
        IF st.err # "nil" THEN [w |-> st.w, isNil |-> TRUE, f |-> NewFile(<<>>), err |-> st.err]
        ELSE [w |-> st.w, isNil |-> FALSE, f |-> NewFile(name), err |-> "nil"])

\* an OpenFile that accepts O_APPEND
OpenFileAppending(w, name, append, create) ==
    IF create
    THEN Then(WriteString(NewFile(name), <<>>), LAMBDA wr :
             [w |-> w, isNil |-> FALSE, f |-> wr.f, err |-> wr.err])
    ELSE [w |-> w, isNil |-> FALSE, f |-> NewFile(name), err |-> "nil"]

\* Fs.OpenFile; the flags are O_APPEND and O_CREATE
OpenFile(w, name, append, create) ==
    IF append THEN [w |-> w, isNil |-> FALSE, f |-> NewFile(name), err |-> "append"]
    ELSE IF create
    THEN Then(WriteString(NewFile(name), <<>>), LAMBDA wr :
             [w |-> w, isNil |-> FALSE, f |-> wr.f, err |-> wr.err])
    ELSE [w |-> w, isNil |-> FALSE, f |-> NewFile(name), err |-> "nil"]

\* a Create that takes every failure of Open for a missing file
CreateOnAnyError(w, name) ==
    Then(Open(w, name), LAMBDA op :
        IF op.err # "nil" THEN OpenFile(op.w, name, FALSE, TRUE) ELSE op)

\* Fs.Create
Create(w, name) ==
    Then(Open(w, name), LAMBDA op :
        IF op.err # "nil"
        THEN IF op.err = "notexist" THEN OpenFile(op.w, name, FALSE, TRUE) ELSE op
        ELSE op)

\* a Mkdir that takes the name as it is given
MkdirUncleaned(w, name) ==
    Then(OpenFile(w, name \o PathSeparator, FALSE, TRUE), LAMBDA of :
        IF of.err # "nil" THEN [w |-> of.w, err |-> of.err]
        ELSE [w |-> Close(of.f, of.w).w, err |-> "nil"])

\* Fs.Mkdir: the deferred Close uploads the placeholder, its error is dropped
Mkdir(w, name) ==
    Then(OpenFile(w, Clean(name) \o PathSeparator, FALSE, TRUE), LAMBDA of :
        IF of.err # "nil" THEN [w |-> of.w, err |-> of.err]
        ELSE [w |-> Close(of.f, of.w).w, err |-> "nil"])

MkdirAll(w, path) == Mkdir(w, path)

\* a Remove that deletes the placeholder of a directory
RemoveDirectory(w, name) ==
    Then(Stat(w, name), LAMBDA st :
        IF st.err # "nil" THEN [w |-> st.w, err |-> st.err]
        ELSE Then(DeleteObject(st.w, IF st.fi.directory THEN addTrailingSlash(name) ELSE name), LAMBDA out :
                 [w |-> out.w, err |-> IF out.res = "ok" THEN "nil" ELSE "transport"]))

\* Fs.Remove
Remove(w, name) ==
    Then(Stat(w, name), LAMBDA st :
        IF st.err # "nil" THEN [w |-> st.w, err |-> st.err]
        ELSE Then(DeleteObject(st.w, name), LAMBDA out :
                 [w |-> out.w, err |-> IF out.res = "ok" THEN "nil" ELSE "transport"]))

\* Fs.ForceRemove
ForceRemove(w, name) ==
    Then(DeleteObject(w, name), LAMBDA out :
        [w |-> out.w, err |-> IF out.res = "ok" THEN "nil" ELSE "transport"])

\* Fs.RemoveAll, and its loop over the entries of the directory
RECURSIVE RemoveAll(_, _)
RECURSIVE RemoveEntries(_, _, _, _)
RemoveEntries(w, dirname, fis, i) ==
    IF i > Len(fis) THEN [w |-> w, err |-> "nil"]
    ELSE Then(IF fis[i].directory THEN RemoveAll(w, Join(dirname, fis[i].name))
              ELSE ForceRemove(w, Join(dirname, fis[i].name)), LAMBDA r :
             IF r.err # "nil" THEN r ELSE RemoveEntries(r.w, dirname, fis, i + 1))

\* a RemoveAll that ends with the object at the name itself
RemoveAllAndName(w, name) ==
    Then(Readdir(NewFile(name), w, 0), LAMBDA rd :
        IF rd.err # "nil" THEN [w |-> rd.w, err |-> rd.err]
        ELSE Then(RemoveEntries(rd.w, name, rd.fis, 1), LAMBDA re :
                 IF re.err # "nil" THEN re
                 ELSE ForceRemove(re.w, trimTrailingSlash(name))))

\* a RemoveAll that deletes the placeholder although an entry failed
RemoveAllPastFailure(w, name) ==
    Then(Readdir(NewFile(name), w, 0), LAMBDA rd :
        IF rd.err # "nil" THEN [w |-> rd.w, err |-> rd.err]
        ELSE Then(RemoveEntries(rd.w, name, rd.fis, 1), LAMBDA re :
                 Then(ForceRemove(re.w, name \o PathSeparator), LAMBDA fr :
                     [w |-> fr.w, err |-> IF re.err # "nil" THEN re.err ELSE fr.err])))

RemoveAll(w, name) ==
    Then(Readdir(NewFile(name), w, 0), LAMBDA rd :
        IF rd.err # "nil" THEN [w |-> rd.w, err |-> rd.err]
        ELSE Then(RemoveEntries(rd.w, name, rd.fis, 1), LAMBDA re :
                 IF re.err # "nil" THEN re
                 ELSE ForceRemove(re.w, name \o PathSeparator)))

\* a Rename that copies a name onto itself
RenameCopyUnchecked(w, oldname, newname) ==
    Then(CopyObject(w, oldname, newname), LAMBDA out :
        IF out.res # "ok" THEN [w |-> out.w, err |-> "transport", done |-> TRUE]
        ELSE [w |-> out.w, err |-> "nil", done |-> FALSE])

\* a Rename that goes on to the DELETE whatever the COPY returned
RenameCopyOnward(w, oldname, newname) ==
    IF oldname = newname THEN [w |-> w, err |-> "nil", done |-> TRUE]
    ELSE [w |-> CopyObject(w, oldname, newname).w, err |-> "nil", done |-> FALSE]

\* Fs.Rename up to and including the COPY
RenameCopy(w, oldname, newname) ==
    IF oldname = newname THEN [w |-> w, err |-> "nil", done |-> TRUE]
    ELSE Then(CopyObject(w, oldname, newname), LAMBDA out :
             IF out.res # "ok" THEN [w |-> out.w, err |-> "transport", done |-> TRUE]
             ELSE [w |-> out.w, err |-> "nil", done |-> FALSE])

\* a Rename that does not report the failure of its DELETE
RenameDeleteQuiet(w, oldname) ==
    [w |-> DeleteObject(w, oldname).w, err |-> "nil"]

\* Fs.Rename after a successful COPY
RenameDelete(w, oldname) ==
    Then(DeleteObject(w, oldname), LAMBDA out :
        [w |-> out.w, err |-> IF out.res = "ok" THEN "nil" ELSE "transport"])

-----------------------------------------------------------------------------
(* Fs values: the context and the MIME table, a map held by reference *)

\* most Fs values in the model
MaxFs == 4

\* NewFs: one Fs value with the background context and a new, empty map;
\* inst[i].mimeTypes is the index in maps of the map that Fs value i refers to
NewFs ==
    [inst |-> << [ctx |-> "background", mimeTypes |-> 1] >>, maps |-> << EmptyStore >>]

\* the table of Fs value i
MimeTable(h, i) == h.maps[h.inst[i].mimeTypes]

\* the key under which AddMimeTypes files an extension
MimeKey(k) == IF Len(k) > 0 /\ k[1] = "." THEN Tail(k) ELSE k

\* the assignments of the loop of AddMimeTypes on one map
AddAll(table, mimeTypes) ==
    [e \in (DOMAIN table) \cup {MimeKey(k) : k \in DOMAIN mimeTypes} |->
        IF \E k \in DOMAIN mimeTypes : MimeKey(k) = e
        THEN mimeTypes[CHOOSE k \in DOMAIN mimeTypes : MimeKey(k) = e]
        ELSE table[e]]

\* Fs.AddMimeTypes on Fs value i: the receiver is a copy of the struct, whose
\* mimeTypes field refers to the map of the original
AddMimeTypes(h, i, mimeTypes) ==
    [inst |-> Append(h.inst, h.inst[i]),
     maps |-> [h.maps EXCEPT ![h.inst[i].mimeTypes] = AddAll(@, mimeTypes)]]

\* Fs.WithContext on Fs value i
WithContext(h, i, ctx) ==
    [inst |-> Append(h.inst, [h.inst[i] EXCEPT !.ctx = ctx]), maps |-> h.maps]

\* index of the final dot of the last element of s at or before i, or 0
RECURSIVE LastDot(_, _)
LastDot(s, i) ==
    IF i = 0 \/ s[i] = "/" THEN 0 ELSE IF s[i] = "." THEN i ELSE LastDot(s, i - 1)

\* path.Ext
Ext(s) == IF LastDot(s, Len(s)) = 0 THEN <<>> ELSE SubSeq(s, LastDot(s, Len(s)), Len(s))

NoType == <<>>

\* File.lookupContentType for a file of Fs value i
lookupContentType(h, i, name) ==
    LET ext == Ext(name)
    IN  IF Len(ext) > 1 /\ Tail(ext) \in DOMAIN MimeTable(h, i) THEN MimeTable(h, i)[Tail(ext)]
        ELSE NoType

-----------------------------------------------------------------------------
(* Callers sharing Fs values: goroutines between their accesses to a map *)

\* the goroutines of the model
Threads == {1, 2}

\* pc: idle, add (in the loop of AddMimeTypes on Fs value fs, pending still
\* to assign), lookup (in Close of a handle of Fs value fs, before
\* lookupContentType), put (before the PUT, the content type being typ)
IdleThread == [pc |-> "idle", fs |-> 0, pending |-> EmptyStore, typ |-> <<>>]

NoThreads == [th |-> [t \in Threads |-> IdleThread], crashed |-> FALSE]

\* the map access thread t is about to make: a write in the loop of
\* AddMimeTypes, a read in lookupContentType
Access(h, c, t) ==
    IF c.th[t].pc = "add" /\ DOMAIN c.th[t].pending # {}
    THEN [on |-> TRUE, map |-> h.inst[c.th[t].fs].mimeTypes, write |-> TRUE]
    ELSE IF c.th[t].pc = "lookup"
    THEN [on |-> TRUE, map |-> h.inst[c.th[t].fs].mimeTypes, write |-> FALSE]
    ELSE [on |-> FALSE, map |-> 0, write |-> FALSE]

\* the access of t and an access of another goroutine are to the same map,
\* one of them a write, and nothing orders them
Racing(h, c, t) ==
    \E u \in Threads \ {t} :
        /\ Access(h, c, t).on /\ Access(h, c, u).on
        /\ Access(h, c, t).map = Access(h, c, u).map
        /\ Access(h, c, t).write \/ Access(h, c, u).write

-----------------------------------------------------------------------------
(* Inputs *)

\* the paths callers pass: files and directories two levels deep, with and
\* without a trailing separator, and a sibling that shares a string prefix
PathSet ==
    { <<"/", "a">>, <<"/", "a", "/">>, <<"/", "a", "b">>, <<"/", "a", "/", "a">>,
      <<"/", "a", "/", "b">>, <<"/", "a", "/", "b", "/">>, <<"/", "a", "/", "b", "/", "a">> }

\* the byte slices passed to one Write
Chunks == {<<>>} \cup {<<b>> : b \in Byte}

\* page limits of the server: one key per page, or the limit of the request
PageLimits == {1, maxObjectsPerRequest}

-----------------------------------------------------------------------------
(* State *)

NoGhost ==
    [via |-> "none", written |-> <<>>, got |-> <<>>, eof |-> FALSE,
     fresh |-> TRUE, src |-> [has |-> FALSE, c |-> <<>>]]

Result(op, name, arg, err, fi, calls, n, data, pre) ==
    [op |-> op, name |-> name, arg |-> arg, err |-> err, fi |-> fi, calls |-> calls,
     n |-> n, data |-> data, pre |-> pre]

\* facts of the state an operation started in
Pre(hadBuf, offset, flag) == [hadBuf |-> hadBuf, offset |-> offset, flag |-> flag]

NoPre == Pre(FALSE, 0, FALSE)

NoRename == [pc |-> "idle", old |-> <<>>, new |-> <<>>, orig |-> <<>>, calls |-> <<>>]

\* the keys changed by the successful calls of a log
Mutated(calls) ==
    {S3Key(calls[i].key) : i \in {j \in 1..Len(calls) : calls[j].op \in {"PUT", "DELETE", "COPY"} /\ calls[j].res = "ok"}}

\* the round-trip ledger without the paths whose object a log has changed
Forget(ledger, calls) ==
    [q \in {x \in DOMAIN ledger : S3Key(x) \notin Mutated(calls)} |-> ledger[q]]

Init ==
    /\ store = EmptyStore
    /\ file = NoFile
    /\ ghost = NoGhost
    /\ last = Result("none", <<>>, <<>>, "nil", NoFileInfo, <<>>, 0, <<>>, NoPre)
    /\ rn = NoRename
    /\ rt = EmptyStore
    /\ fss = NewFs
    /\ conc = NoThreads

Idle == rn.pc = "idle"

Fits(s) == Cardinality(DOMAIN s) <= MaxObjects

-----------------------------------------------------------------------------
(* Operations of Fs *)

\* NewFileInfo(name, sizeInBytes, modTime) (fi: the descriptor, n: the size)
DoNewFileInfo(name, sizeInBytes, modTime) ==
    /\ last' = Result("NewFileInfo", name, modTime, "nil", NewFileInfo(name, sizeInBytes, modTime),
                      <<>>, sizeInBytes, <<>>, NoPre)
    /\ UNCHANGED <<conc, fss, store, file, ghost, rn, rt>>

\* NewDirectoryInfo(name)
DoNewDirectoryInfo(name) ==
    /\ last' = Result("NewDirectoryInfo", name, <<>>, "nil", NewDirectoryInfo(name), <<>>, 0, <<>>, NoPre)
    /\ UNCHANGED <<conc, fss, store, file, ghost, rn, rt>>

DoStat(p, fail) ==
    \E r \in {Stat(World(store, fail, maxObjectsPerRequest), p)} :
        /\ last' = Result("Stat", p, <<>>, r.err, r.fi, r.w.calls, 0, <<>>, NoPre)
        /\ UNCHANGED <<conc, fss, store, file, ghost, rn, rt>>

Opened(r, via) ==
    /\ file' = IF r.isNil \/ r.err # "nil" THEN file ELSE [alloc |-> TRUE, f |-> r.f]
    /\ ghost' = IF r.isNil \/ r.err # "nil" THEN ghost ELSE [NoGhost EXCEPT !.via = via]

DoOpen(p, fail) ==
    \E r \in {Open(World(store, fail, maxObjectsPerRequest), p)} :
        /\ Idle
        /\ Opened(r, "Open")
        /\ last' = Result("Open", p, <<>>, r.err, NoFileInfo, r.w.calls, 0, <<>>, NoPre)
        /\ UNCHANGED <<conc, fss, store, rn, rt>>

DoCreate(p, fail) ==
    \E r \in {Create(World(store, fail, maxObjectsPerRequest), p)} :
        /\ Idle
        /\ Opened(r, "Create")
        /\ last' = Result("Create", p, <<>>, r.err, NoFileInfo, r.w.calls, 0, <<>>, NoPre)
        /\ UNCHANGED <<conc, fss, store, rn, rt>>

DoOpenFile(p, append, create) ==
    \E r \in {OpenFile(World(store, 0, maxObjectsPerRequest), p, append, create)} :
        /\ Idle
        /\ Opened(r, "OpenFile")
        /\ store' = r.w.store
        /\ last' = Result("OpenFile", p, <<>>, r.err, NoFileInfo, r.w.calls, 0, <<>>, Pre(create, 0, append))
        /\ UNCHANGED <<conc, fss, rn, rt>>

DoMkdir(p, fail) ==
    \E r \in {Mkdir(World(store, fail, maxObjectsPerRequest), p)} :
        /\ Idle
        /\ Fits(r.w.store)
        /\ store' = r.w.store
        /\ rt' = Forget(rt, r.w.calls)
        /\ last' = Result("Mkdir", p, <<>>, r.err, NoFileInfo, r.w.calls, 0, <<>>, NoPre)
        /\ UNCHANGED <<conc, fss, file, ghost, rn>>

DoMkdirAll(p, fail) ==
    \E r \in {MkdirAll(World(store, fail, maxObjectsPerRequest), p)} :
        /\ Idle
        /\ Fits(r.w.store)
        /\ store' = r.w.store
        /\ rt' = Forget(rt, r.w.calls)
        /\ last' = Result("MkdirAll", p, <<>>, r.err, NoFileInfo, r.w.calls, 0, <<>>, NoPre)
        /\ UNCHANGED <<conc, fss, file, ghost, rn>>

DoRemove(p, fail) ==
    \E r \in {Remove(World(store, fail, maxObjectsPerRequest), p)} :
        /\ Idle
        /\ store' = r.w.store
        /\ rt' = Forget(rt, r.w.calls)
        /\ last' = Result("Remove", p, <<>>, r.err, NoFileInfo, r.w.calls, 0, <<>>, NoPre)
        /\ UNCHANGED <<conc, fss, file, ghost, rn>>

\* pre.flag: Stat reported p to be a directory before the call
DoRemoveAll(p, fail, page) ==
    \E r \in {RemoveAll(World(store, fail, page), p)},
       before \in {Stat(World(store, 0, maxObjectsPerRequest), p)} :
        /\ Idle
        /\ store' = r.w.store
        /\ rt' = Forget(rt, r.w.calls)
        /\ last' = Result("RemoveAll", p, <<>>, r.err, NoFileInfo, r.w.calls, 0, <<>>,
                          Pre(FALSE, 0, before.err = "nil" /\ before.fi.directory))
        /\ UNCHANGED <<conc, fss, file, ghost, rn>>

\* Rename: the oldname = newname check and the COPY
DoRenameCopy(oldname, newname, fail) ==
    \E r \in {RenameCopy(World(store, fail, maxObjectsPerRequest), oldname, newname)} :
        /\ Idle
        /\ Fits(r.w.store)
        /\ store' = r.w.store
        /\ rt' = Forget(rt, r.w.calls)
        /\ rn' = IF r.done THEN NoRename
                 ELSE [pc |-> "copied", old |-> oldname, new |-> newname,
                       orig |-> Content(store, S3Key(oldname)), calls |-> r.w.calls]
        /\ last' = Result("Rename", oldname, newname, IF r.done THEN r.err ELSE "pending",
                          NoFileInfo, r.w.calls, 0, <<>>, NoPre)
        /\ UNCHANGED <<conc, fss, file, ghost>>

\* Rename: the DELETE that follows a successful COPY
DoRenameDelete(fail) ==
    \E r \in {RenameDelete([World(store, fail, maxObjectsPerRequest) EXCEPT !.calls = rn.calls], rn.old)} :
        /\ rn.pc = "copied"
        /\ store' = r.w.store
        /\ rt' = Forget(rt, r.w.calls)
        /\ rn' = NoRename
        /\ last' = Result("Rename", rn.old, rn.new, r.err, NoFileInfo, r.w.calls, 0, <<>>, NoPre)
        /\ UNCHANGED <<conc, fss, file, ghost>>

-----------------------------------------------------------------------------
(* Operations of File, on the handle returned by the last successful open *)

DoWrite(p) ==
    \E r \in {Write(file.f, p)} :
        /\ Idle
        /\ file.alloc
        /\ Len(file.f.writeBuf.bytes) + Len(p) <= MaxBody
        /\ file' = [file EXCEPT !.f = r.f]
        /\ ghost' = IF r.err = "nil" THEN [ghost EXCEPT !.written = @ \o p] ELSE ghost
        /\ last' = Result("Write", file.f.name, <<>>, r.err, NoFileInfo, <<>>, r.n, p, NoPre)
        /\ UNCHANGED <<conc, fss, store, rn, rt>>

\* File.Read on the open handle (arg: the length of the buffer, pre.hadBuf: a
\* stream was open, pre.offset and pre.flag: the offset and the closed flag
\* before the call)
DoRead(n, k, fail) ==
    \E r \in {Read(file.f, World(store, fail, maxObjectsPerRequest), n, k)} :
        LET got == r.w.calls # <<>> /\ r.w.calls[1].res = "ok"
        IN
        /\ Idle
        /\ file.alloc
        /\ r.f.offset <= MaxReach
        /\ file' = [file EXCEPT !.f = r.f]
        /\ ghost' = [ghost EXCEPT
                        !.src = IF got THEN (IF ghost.via = "Open" /\ file.f.name \in DOMAIN rt
                                             THEN [has |-> TRUE, c |-> rt[file.f.name]]
                                             ELSE [has |-> FALSE, c |-> <<>>])
                                ELSE @,
                        !.fresh = IF got THEN @ /\ file.f.offset = 0 ELSE @,
                        !.got = IF got THEN r.data ELSE @ \o r.data,
                        !.eof = r.err = "eof"]
        /\ last' = Result("Read", file.f.name, n, r.err, NoFileInfo, r.w.calls, r.n, r.data,
                          Pre(~file.f.readCloser.nil, file.f.offset, file.f.closed))
        /\ UNCHANGED <<conc, fss, store, rn, rt>>

DoSeek(offset, whence, k) ==
    \E r \in {Seek(file.f, offset, whence, k)} :
        /\ Idle
        /\ file.alloc
        /\ r.f.offset <= MaxReach
        /\ file' = [file EXCEPT !.f = r.f]
        /\ ghost' = [ghost EXCEPT !.fresh = FALSE, !.eof = FALSE]
        /\ last' = Result("Seek", file.f.name, <<>>, r.err, NoFileInfo, <<>>, r.off, <<>>, NoPre)
        /\ UNCHANGED <<conc, fss, store, rn, rt>>

\* File.ReadAt on the open handle (arg: off, pre: the handle before the call)
DoReadAt(n, off, k, fail) ==
    \E r \in {ReadAt(file.f, World(store, fail, maxObjectsPerRequest), n, off, k)} :
        LET got == r.w.calls # <<>> /\ r.w.calls[1].res = "ok"
        IN
        /\ Idle
        /\ file.alloc
        /\ r.f.offset <= MaxReach
        /\ file' = [file EXCEPT !.f = r.f]
        /\ ghost' = [ghost EXCEPT !.src = IF got THEN (IF ghost.via = "Open" /\ file.f.name \in DOMAIN rt
                                                        THEN [has |-> TRUE, c |-> rt[file.f.name]]
                                                        ELSE [has |-> FALSE, c |-> <<>>])
                                           ELSE @,
                                  !.fresh = FALSE,
                                  !.got = IF got THEN r.data ELSE @ \o r.data,
                                  !.eof = r.err = "eof"]
        /\ last' = Result("ReadAt", file.f.name, off, r.err, NoFileInfo, r.w.calls, r.n, r.data,
                          Pre(~file.f.writeBuf.nil, file.f.offset, file.f.closed))
        /\ UNCHANGED <<conc, fss, store, rn, rt>>

\* File.WriteAt on the open handle (arg: off, pre: the handle before the call)
DoWriteAt(p, off) ==
    \E r \in {WriteAt(file.f, p, off)} :
        /\ Idle
        /\ file.alloc
        /\ Len(file.f.writeBuf.bytes) + Len(p) <= MaxBody
        /\ file' = [file EXCEPT !.f = r.f]
        /\ ghost' = IF r.err = "nil" THEN [ghost EXCEPT !.written = @ \o p] ELSE ghost
        /\ last' = Result("WriteAt", file.f.name, off, r.err, NoFileInfo, <<>>, r.n, p,
                          Pre(~file.f.writeBuf.nil, file.f.offset, file.f.closed))
        /\ UNCHANGED <<conc, fss, store, rn, rt>>

\* a successful upload by a handle from Create enters the ledger
\* (arg: a stream was open, pre: the buffer, offset and closed flag before)
DoClose(fail) ==
    \E r \in {Close(file.f, World(store, fail, maxObjectsPerRequest))} :
        LET uploaded == r.w.calls # <<>> /\ r.w.calls[1].res = "ok"
            kept == Forget(rt, r.w.calls)
        IN
        /\ Idle
        /\ file.alloc
        /\ Fits(r.w.store)
        /\ file' = [file EXCEPT !.f = r.f]
        /\ store' = r.w.store
        /\ rt' = IF uploaded /\ ghost.via = "Create"
                 THEN PutKey(kept, file.f.name, ghost.written)
                 ELSE kept
        /\ last' = Result("Close", file.f.name, ~file.f.readCloser.nil, r.err, NoFileInfo, r.w.calls, 0, <<>>,
                          Pre(~file.f.writeBuf.nil, file.f.offset, file.f.closed))
        /\ UNCHANGED <<conc, fss, ghost, rn>>

\* File.Readdir on the open handle; the handle keeps nothing of the listing
\* (n: the argument, data: the entries returned, pre.offset: the page limit)
DoReaddir(n, fail, page) ==
    \E r \in {Readdir(file.f, World(store, fail, page), n)} :
        /\ Idle
        /\ file.alloc
        /\ last' = Result("Readdir", file.f.name, <<>>, r.err, NoFileInfo, r.w.calls, n, r.fis,
                          Pre(FALSE, page, FALSE))
        /\ UNCHANGED <<conc, fss, store, file, ghost, rn, rt>>

\* Lister.ListObjects of a Lister for name (arg: delimiter and filesOnly,
\* pre.flag: the iteration order of the set of synthesized directories,
\* pre.hadBuf: the server reports every page as truncated)
DoListObjects(name, delim, max, filesOnly, fail, page, rev, always) ==
    \E r \in {ListObjects(WorldOrder(store, fail, page, rev, always), name, delim, max, filesOnly)} :
        /\ Idle
        /\ last' = Result("ListObjects", name, [delim |-> delim, filesOnly |-> filesOnly], r.err,
                          NoFileInfo, r.w.calls, max, r.fis, Pre(always, page, rev))
        /\ UNCHANGED <<conc, fss, store, file, ghost, rn, rt>>

\* fs.WithContext(ctx) on Fs value i (n: the receiver, arg: the context)
DoWithContext(i, ctx) ==
    /\ Idle
    /\ Len(fss.inst) < MaxFs
    /\ fss' = WithContext(fss, i, ctx)
    /\ last' = Result("WithContext", <<>>, ctx, "nil", NoFileInfo, <<>>, i, <<>>, NoPre)
    /\ UNCHANGED <<conc, store, file, ghost, rn, rt>>

\* fs.AddMimeTypes(m) on Fs value i (n: the receiver, arg: the map)
DoAddMimeTypes(i, mimeTypes) ==
    /\ Idle
    /\ Len(fss.inst) < MaxFs
    /\ fss' = AddMimeTypes(fss, i, mimeTypes)
    /\ last' = Result("AddMimeTypes", <<>>, mimeTypes, "nil", NoFileInfo, <<>>, i, <<>>, NoPre)
    /\ UNCHANGED <<conc, store, file, ghost, rn, rt>>

\* a goroutine calls fs.AddMimeTypes(m) on Fs value i: the receiver is copied
BeginAddMimeTypes(t, i, mimeTypes) ==
    /\ ~conc.crashed
    /\ conc.th[t].pc = "idle"
    /\ Len(fss.inst) + Cardinality({u \in Threads : conc.th[u].pc = "add"}) < MaxFs
    /\ conc' = [conc EXCEPT !.th[t] = [IdleThread EXCEPT !.pc = "add", !.fs = i, !.pending = mimeTypes]]
    /\ UNCHANGED <<store, file, ghost, last, rn, rt, fss>>

\* one assignment fs.mimeTypes[k] = v of the loop, or the return of the copy;
\* an assignment that races with another access either takes effect or ends
\* the program (the runtime's report of a concurrent map access)
StepAddMimeTypes(t) ==
    /\ ~conc.crashed
    /\ conc.th[t].pc = "add"
    /\ IF DOMAIN conc.th[t].pending = {}
       THEN /\ fss' = [fss EXCEPT !.inst = Append(@, fss.inst[conc.th[t].fs])]
            /\ conc' = [conc EXCEPT !.th[t] = IdleThread]
       ELSE \E k \in DOMAIN conc.th[t].pending, crash \in BOOLEAN :
               /\ crash => Racing(fss, conc, t)
               /\ fss' = IF crash THEN fss
                         ELSE [fss EXCEPT !.maps[fss.inst[conc.th[t].fs].mimeTypes] =
                                              AddAll(@, (k :> conc.th[t].pending[k]))]
               /\ conc' = [conc EXCEPT !.crashed = crash,
                                       !.th[t].pending = [x \in (DOMAIN @) \ {k} |-> @[x]]]
    /\ UNCHANGED <<store, file, ghost, last, rn, rt>>

\* a goroutine calls Close on a handle of Fs value i that holds written bytes
BeginClose(t, i) ==
    /\ ~conc.crashed
    /\ conc.th[t].pc = "idle"
    /\ conc' = [conc EXCEPT !.th[t] = [IdleThread EXCEPT !.pc = "lookup", !.fs = i]]
    /\ UNCHANGED <<store, file, ghost, last, rn, rt, fss>>

\* lookupContentType in finaliseWrite: the read of the map; a read that races
\* with a write finds the map as it is or ends the program
StepLookup(t, name) ==
    \E crash \in BOOLEAN :
        /\ ~conc.crashed
        /\ conc.th[t].pc = "lookup"
        /\ crash => Racing(fss, conc, t)
        /\ conc' = [conc EXCEPT !.crashed = crash,
                                !.th[t].pc = "put",
                                !.th[t].typ = lookupContentType(fss, conc.th[t].fs, name)]
        /\ UNCHANGED <<store, file, ghost, last, rn, rt, fss>>

\* the PUT of finaliseWrite and the rest of Close, for a handle of name that
\* holds the bytes of one Write (arg: the content type sent)
StepPut(t, name, p) ==
    \E r \in {Close(Write(NewFile(name), p).f, World(store, 0, maxObjectsPerRequest))} :
        /\ ~conc.crashed
        /\ conc.th[t].pc = "put"
        /\ store' = r.w.store
        /\ rt' = Forget(rt, r.w.calls)
        /\ last' = Result("Close", name, conc.th[t].typ, r.err, NoFileInfo, r.w.calls, t, p, NoPre)
        /\ conc' = [conc EXCEPT !.th[t] = IdleThread]
        /\ UNCHANGED <<file, ghost, rn, fss>>

-----------------------------------------------------------------------------
(* writeTextFile of the live test: Create, one WriteString per chunk, Close *)

RECURSIVE WriteChunks(_, _)
WriteChunks(f, chunks) ==
    IF chunks = <<>> THEN f ELSE WriteChunks(WriteString(f, Head(chunks)).f, Tail(chunks))

\* the bytes of a text
RECURSIVE Flatten(_)
Flatten(content) == IF content = <<>> THEN <<>> ELSE Head(content) \o Flatten(Tail(content))

writeTextFile(w, name, content) ==
    Then(Create(w, name), LAMBDA cr :
        IF cr.err # "nil" THEN [w |-> cr.w, err |-> cr.err]
        ELSE Then(Close(WriteChunks(cr.f, content), cr.w), LAMBDA cl :
                 [w |-> cl.w, err |-> cl.err]))

DoWriteTextFile(p, content, fail) ==
    \E r \in {writeTextFile(World(store, fail, maxObjectsPerRequest), p, content)} :
        /\ Idle
        /\ Fits(r.w.store)
        /\ store' = r.w.store
        /\ rt' = IF r.err = "nil" THEN PutKey(Forget(rt, r.w.calls), p, Flatten(content))
                 ELSE Forget(rt, r.w.calls)
        /\ last' = Result("writeTextFile", p, <<>>, r.err, NoFileInfo, r.w.calls, 0, <<>>, NoPre)
        /\ UNCHANGED <<conc, fss, file, ghost, rn>>

-----------------------------------------------------------------------------
(* Specifications *)

\* the indices of the calls of an operation that may fail: none (0), or one
\* of the calls the operation issues when nothing fails
FailPoints(r) ==
    0..(IF Len(r.w.calls) < MaxFail THEN Len(r.w.calls) ELSE MaxFail)

NoFail(page) == World(store, 0, page)

\* the texts written whole, as the chunks of their WriteString calls
Texts == { << <<1>> >>, << <<1>>, <<2>> >> }

\* texts that differ in the order of their chunks, one in a single chunk, and
\* the empty text
OrderedTexts == { << <<1>>, <<2>> >>, << <<2>>, <<1>> >>, << <<1, 2>> >>, << <<>> >> }

\* a file, the same name as a directory, and a sibling sharing a string prefix
NamePaths == { <<"/", "a">>, <<"/", "a", "/">>, <<"/", "a", "b">> }

\* one file name
OnePath == { <<"/", "a">> }

\* a file name and the same name with a trailing separator
FilePaths == { <<"/", "a">>, <<"/", "a", "/">> }

StatAny(S) ==
    \E p \in S : \E fail \in FailPoints(Stat(NoFail(1), p)) : DoStat(p, fail)

MkdirAny(S) ==
    \E p \in S : \E fail \in FailPoints(Mkdir(NoFail(1), p)) : DoMkdir(p, fail)

RemoveAny(S) ==
    \E p \in S : \E fail \in FailPoints(Remove(NoFail(1), p)) : DoRemove(p, fail)

RemoveAllAny(S) ==
    \E p \in S, page \in PageLimits : \E fail \in FailPoints(RemoveAll(NoFail(page), p)) :
        DoRemoveAll(p, fail, page)

WriteTextFileAny(S, T) ==
    \E p \in S, content \in T : \E fail \in FailPoints(writeTextFile(NoFail(1), p, content)) :
        DoWriteTextFile(p, content, fail)

RenameCopyAny(S) ==
    \E oldname \in S, newname \in S : \E fail \in 0..1 : DoRenameCopy(oldname, newname, fail)

RenameDeleteAny == \E fail \in {0, 2} : DoRenameDelete(fail)

OpenAny(S) ==
    \E p \in S : \E fail \in FailPoints(Open(NoFail(1), p)) : DoOpen(p, fail)

CreateAny(S) ==
    \E p \in S : \E fail \in FailPoints(Create(NoFail(1), p)) : DoCreate(p, fail)

OpenFileAny(S) ==
    \E p \in S, append \in BOOLEAN, create \in BOOLEAN : DoOpenFile(p, append, create)

WriteAny == \E p \in Chunks : DoWrite(p)

ReadAny == \E n \in 0..MaxRead, k \in 1..MaxRead, fail \in 0..1 : DoRead(n, k, fail)

SeekAny(offsets) == \E offset \in offsets, whence \in 0..2, k \in 1..MaxRead : DoSeek(offset, whence, k)

CloseAny == \E fail \in 0..1 : DoClose(fail)

\* Fs on a small namespace: Stat, Mkdir, Remove and whole-file writes
Next ==
    \/ StatAny(NamePaths \cup {<<>>})
    \/ MkdirAny(NamePaths)
    \/ RemoveAny(NamePaths)
    \/ WriteTextFileAny(NamePaths, Texts)

Spec == Init /\ [][Next]_vars

\* Rename in its two steps, with Stat as the concurrent observer
NextRename ==
    \/ WriteTextFileAny(NamePaths, Texts)
    \/ RenameCopyAny(NamePaths)
    \/ RenameDeleteAny
    \/ StatAny(NamePaths)

SpecRename == Init /\ [][NextRename]_vars

\* a directory with a subdirectory: the names Mkdir is given, the files
\* written (one nested, one beside the subdirectory, one sibling of the
\* directory sharing a string prefix), and the names RemoveAll is given
TreeDirs == { <<"/", "a">>, <<"/", "a", "/", "b">> }

TreeFiles == { <<"/", "a", "/", "b", "/", "a">>, <<"/", "a", "/", "a">>, <<"/", "a", "b">> }

TreeRoots == { <<"/", "a">>, <<"/", "a", "/">>, <<"/", "a", "/", "b">> }

\* Fs on a tree two levels deep: recursive removal
NextTree ==
    \/ MkdirAny(TreeDirs)
    \/ WriteTextFileAny(TreeFiles, { << <<1>> >> })
    \/ RemoveAllAny(TreeRoots)

SpecTree == Init /\ [][NextTree]_vars

\* the write path of one handle at a time: open, write, seek, close
NextFile ==
    \/ OpenAny(OnePath)
    \/ CreateAny(OnePath)
    \/ OpenFileAny(OnePath)
    \/ WriteAny
    \/ SeekAny(0..1)
    \/ CloseAny

SpecFile == Init /\ [][NextFile]_vars

\* the read path of one handle at a time, on files written whole
NextRead ==
    \/ WriteTextFileAny(FilePaths, OrderedTexts)
    \/ StatAny(FilePaths)
    \/ OpenAny(FilePaths)
    \/ ReadAny
    \/ CloseAny

SpecRead == Init /\ [][NextRead]_vars

\* an object of two bytes
TwoBytes == { << <<1, 2>> >> }

\* the bytes one handle writes, in one chunk
OneChunk == { <<1>> }

ReadAtAny == \E n \in 0..MaxRead, off \in 0..MaxOffset, k \in 1..MaxRead, fail \in 0..1 : DoReadAt(n, off, k, fail)

WriteAtAny == \E p \in OneChunk, off \in 0..1 : DoWriteAt(p, off)

ReaddirAll == \E fail \in 0..1 : DoReaddir(-1, fail, maxObjectsPerRequest)

\* every method of one handle at a time, in any order, Close included
NextHandle ==
    \/ \E p \in OnePath, content \in TwoBytes : DoWriteTextFile(p, content, 0)
    \/ OpenAny(OnePath)
    \/ CreateAny(OnePath)
    \/ ReadAny
    \/ \E p \in OneChunk : DoWrite(p)
    \/ SeekAny(0..1)
    \/ ReadAtAny
    \/ WriteAtAny
    \/ ReaddirAll
    \/ CloseAny

SpecHandle == Init /\ [][NextHandle]_vars

\* a read handle moved about: Read and Seek to and by every offset of the object
NextSeek ==
    \/ \E p \in OnePath, content \in TwoBytes : DoWriteTextFile(p, content, 0)
    \/ OpenAny(OnePath)
    \/ ReadAny
    \/ SeekAny(0..MaxOffset)
    \/ CloseAny

SpecSeek == Init /\ [][NextSeek]_vars

\* names of directories as Mkdir may be given them: nested, with a trailing
\* separator, with a "." element, and the empty name
MkdirPaths ==
    { <<"/", "a">>, <<"/", "a", "/">>, <<"/", "a", "/", "b">>, <<"/", "a", "/", ".", "/", "b">>, <<>> }

\* directories made, made again and removed
NextMkdir ==
    \/ \E p \in MkdirPaths, fail \in 0..1 : DoMkdir(p, fail)
    \/ \E p \in MkdirPaths, fail \in 0..1 : DoMkdirAll(p, fail)
    \/ RemoveAny(MkdirPaths)
    \/ StatAny(MkdirPaths)

SpecMkdir == Init /\ [][NextMkdir]_vars

\* longest name a descriptor is built from
MaxName == 4

\* every name of separators and two letters, the empty name included
Names == UNION { [1..n -> {"/", "a", "b"}] : n \in 0..MaxName }

\* descriptors built from names
NextInfo ==
    \/ \E name \in Names, sizeInBytes \in 0..MaxBody, modTime \in 0..1 :
           DoNewFileInfo(name, sizeInBytes, modTime)
    \/ \E name \in Names : DoNewDirectoryInfo(name)

SpecInfo == Init /\ [][NextInfo]_vars

\* files written by Create: a name and the same name with a trailing
\* separator, both of which may hold an object already
NextCreate ==
    \/ \E p \in FilePaths : DoWriteTextFile(p, << <<1>> >>, 0)
    \/ CreateAny(FilePaths)
    \/ \E p \in {<<>>, <<2>>} : DoWrite(p)
    \/ CloseAny

SpecCreate == Init /\ [][NextCreate]_vars

\* a directory, a file stored at the very name of the directory, a file
\* below it and a sibling sharing its string prefix
FrameFiles == { <<"/", "a">>, <<"/", "a", "/", "a">>, <<"/", "a", "b">> }

FrameRoots == { <<"/", "a">>, <<"/", "a", "/">> }

\* recursive removal beside keys that are not below the directory
NextFrame ==
    \/ MkdirAny({ <<"/", "a">> })
    \/ WriteTextFileAny(FrameFiles, { << <<1>> >> })
    \/ RemoveAllAny(FrameRoots)

SpecFrame == Init /\ [][NextFrame]_vars

\* the names of a directory two levels deep: directories made by Mkdir, files
\* written, and the names listed
ListDirs == { <<"/", "a">>, <<"/", "a", "/", "b">>, <<"/", "a", "/", "b", "/", "c">> }

ListFiles == { <<"/", "a", "/", "a">>, <<"/", "a", "/", "b", "/", "a">> }

ListRoots == { <<"/", "a">>, <<"/", "a", "/">>, <<"/", "a", "/", "b">> }

\* the largest number of entries asked for
MaxList == 2

MkdirOk(S) == \E p \in S : DoMkdir(p, 0)

WriteTextFileOk(S) == \E p \in S : DoWriteTextFile(p, << <<1>> >>, 0)

OpenOk(S) == \E p \in S : DoOpen(p, 0)

ReaddirAny ==
    \E n \in (-1)..MaxList, page \in PageLimits :
        \E fail \in FailPoints(Readdir(file.f, NoFail(page), n)) : DoReaddir(n, fail, page)

\* the listings of Readdir (delimited, files only) and the recursive listing
\* with directories
ListModes == { [delim |-> TRUE, filesOnly |-> TRUE], [delim |-> FALSE, filesOnly |-> FALSE] }

ListObjectsAny(S) ==
    \E name \in S, m \in ListModes, max \in 0..MaxList, page \in PageLimits, rev \in BOOLEAN :
        \E fail \in FailPoints(ListObjects(NoFail(page), name, m.delim, max, m.filesOnly)) :
            /\ rev => ~m.filesOnly
            /\ DoListObjects(name, m.delim, max, m.filesOnly, fail, page, rev, FALSE)

\* the same against a server that reports every page as truncated
ListObjectsStuck(S) ==
    \E name \in S, m \in ListModes, max \in 0..MaxList :
        DoListObjects(name, m.delim, max, m.filesOnly, 0, maxObjectsPerRequest, FALSE, TRUE)

\* directory handles: Readdir on the handle of a directory being built
NextDir ==
    \/ MkdirOk(ListDirs)
    \/ WriteTextFileOk(ListFiles)
    \/ OpenOk(ListRoots)
    \/ ReaddirAny

SpecDir == Init /\ [][NextDir]_vars

\* the Lister on a directory being built
NextList ==
    \/ MkdirOk(ListDirs)
    \/ WriteTextFileOk(ListFiles)
    \/ ListObjectsAny({ <<"/", "a">> })
    \/ ListObjectsStuck({ <<"/", "a">> })

SpecList == Init /\ [][NextList]_vars

\* the contexts given to WithContext
Contexts == {"background", "request", "cancelled"}

\* the maps given to AddMimeTypes: extensions with and without the dot, no
\* two keys of a map naming the same extension
MimeTypeMaps ==
    { (<<".", "a">> :> "text/a"), (<<"a">> :> "text/plain"), (<<"b">> :> "text/b"),
      (<<".", "a">> :> "text/a" @@ <<"b">> :> "text/plain") }

\* files with the extensions of the maps, and one without
MimeFiles == { <<"/", "x", ".", "a">>, <<"/", "x", ".", "b">>, <<"/", "x">> }

WithContextAny == \E i \in 1..Len(fss.inst), ctx \in Contexts : DoWithContext(i, ctx)

AddMimeTypesAny == \E i \in 1..Len(fss.inst), m \in MimeTypeMaps : DoAddMimeTypes(i, m)

\* Fs values derived from one another
NextFs ==
    \/ WithContextAny
    \/ AddMimeTypesAny

SpecFs == Init /\ [][NextFs]_vars

\* the file closed by the goroutines
SharedFile == <<"/", "x", ".", "a">>

\* the maps the goroutines add: one of one entry, one of two
SharedMaps == { (<<"a">> :> "text/plain"), (<<".", "a">> :> "text/a" @@ <<"b">> :> "text/plain") }

\* goroutines deriving Fs values and closing handles of them
NextConc ==
    \/ \E t \in Threads, i \in 1..Len(fss.inst), m \in SharedMaps : BeginAddMimeTypes(t, i, m)
    \/ \E t \in Threads : StepAddMimeTypes(t)
    \/ \E t \in Threads, i \in 1..Len(fss.inst) : BeginClose(t, i)
    \/ \E t \in Threads : StepLookup(t, SharedFile)
    \/ \E t \in Threads : StepPut(t, SharedFile, <<1>>)
    \/ \E i \in 1..Len(fss.inst) : DoWithContext(i, "request")

SpecConc == Init /\ [][NextConc]_vars

-----------------------------------------------------------------------------
(* Properties *)

\* no call of the log failed in transport
AllOk(calls) == \A i \in 1..Len(calls) : calls[i].res # "fail"

\* the calls of a log with the given operation
CallsOf(calls, op) == SelectSeq(calls, LAMBDA c : c.op = op)

\* the key Stat asks HEAD about
StatKey(name) == S3Key(Clean(name))

\* C3: after Mkdir(p) returns success, Stat(p) succeeds and reports a
\* directory
C3_MkdirThenStatIsDirectory ==
    (last.op = "Mkdir" /\ last.err = "nil") =>
        LET st == Stat(NoFail(1), last.name)
        IN  st.err = "nil" /\ st.fi.directory

\* the last operation is a Stat whose HEAD found an object
StatHeadFound ==
    /\ last.op = "Stat"
    /\ Len(last.calls) >= 1
    /\ last.calls[1].op = "HEAD"
    /\ last.calls[1].res = "ok"

\* C4: when the HEAD of Stat succeeds, Stat reports a file with the size of
\* the object if the name has no trailing separator and fails with not-exist
\* if it has one, and in neither case issues a LIST
C4_StatKindOnHeadSuccess ==
    StatHeadFound =>
        /\ Len(last.calls) = 1
        /\ IF hasTrailingSlash(last.name)
           THEN last.err = "notexist"
           ELSE /\ last.err = "nil"
                /\ ~last.fi.directory
                /\ last.fi.sizeInBytes = Len(store[StatKey(last.name)])

C4_Witness == StatHeadFound /\ hasTrailingSlash(last.name) /\ last.err = "notexist"

\* the last operation is a Stat of a name with no object at its normalized
\* key, none of whose calls failed
StatNoObject ==
    /\ last.op = "Stat"
    /\ AllOk(last.calls)
    /\ StatKey(last.name) \notin DOMAIN store

\* C5: Stat of a path with no object at its normalized key reports a
\* directory iff some key currently has the normalized path as a prefix or
\* the path is empty, and fails with not-exist otherwise
C5_DirectoryInferredFromKeys ==
    StatNoObject =>
        LET prefix == trimLeadingSlash(Clean(last.name))
        IN  IF last.name = <<>> \/ \E k \in DOMAIN store : HasPrefix(k, prefix)
            THEN last.err = "nil" /\ last.fi.directory
            ELSE last.err = "notexist"

\* a directory is reported for a name that exists only through a key below it
C5_Witness ==
    /\ StatNoObject
    /\ last.name # <<>>
    /\ last.fi.directory
    /\ \E k \in DOMAIN store : HasPrefix(k, trimLeadingSlash(Clean(last.name)))

\* the directory is gone once its last key has been removed
C5_WitnessGone ==
    /\ StatNoObject
    /\ last.name # <<>>
    /\ last.err = "notexist"
    /\ store = EmptyStore

\* C6: OpenFile with the append flag returns an error whatever the create
\* flag and whether or not the key exists, issues no storage call and leaves
\* the store unchanged
C6_AppendAlwaysRejected ==
    [][(last'.op = "OpenFile" /\ last'.pre.flag) =>
           /\ last'.err # "nil"
           /\ last'.calls = <<>>
           /\ store' = store]_vars

\* append was rejected with the create flag set, on a key that exists
C6_Witness ==
    /\ last.op = "OpenFile"
    /\ last.pre.flag
    /\ last.pre.hadBuf
    /\ last.err = "append"
    /\ S3Key(last.name) \in DOMAIN store

\* the last operation is a Rename of a name to itself
RenameSame == last.op = "Rename" /\ last.name = last.arg

\* C7: Rename of a name to itself issues no storage call and succeeds,
\* whether or not the name exists
C7_RenameSameIsNoOp ==
    RenameSame => last.calls = <<>> /\ last.err = "nil"

\* a name that does not exist was renamed to itself
C7_Witness == RenameSame /\ last.err = "nil" /\ S3Key(last.name) \notin DOMAIN store

\* the COPY of a Rename failed
CopyFailed(calls) == Len(calls) >= 1 /\ calls[1].op = "COPY" /\ calls[1].res # "ok"

\* the DELETE of a Rename failed after its COPY succeeded
DeleteFailed(calls) ==
    /\ Len(calls) = 2
    /\ calls[1].op = "COPY" /\ calls[1].res = "ok"
    /\ calls[2].op = "DELETE" /\ calls[2].res # "ok"

\* C8: for a # b, when the COPY of Rename(a, b) fails, Rename returns the
\* error without a DELETE and both keys are as they were; when the COPY
\* succeeds and the DELETE fails, Rename returns the error and both keys are
\* present
C8_RenameFailureOutcomes ==
    [][(last'.op = "Rename" /\ last'.name # last'.arg) =>
           /\ CopyFailed(last'.calls) =>
                  /\ last'.err \notin {"nil", "pending"}
                  /\ Len(last'.calls) = 1
                  /\ store' = store
           /\ DeleteFailed(last'.calls) =>
                  /\ last'.err # "nil"
                  /\ S3Key(last'.name) \in DOMAIN store'
                  /\ S3Key(last'.arg) \in DOMAIN store']_vars

\* a Rename whose DELETE failed has returned, and both keys exist
C8_Witness ==
    /\ last.op = "Rename"
    /\ DeleteFailed(last.calls)
    /\ last.err = "transport"
    /\ {S3Key(last.name), S3Key(last.arg)} \subseteq DOMAIN store

\* a Rename whose COPY failed has returned and its source is still there
C8_WitnessCopy ==
    /\ last.op = "Rename"
    /\ CopyFailed(last.calls)
    /\ last.err = "transport"
    /\ S3Key(last.name) \in DOMAIN store

\* key k holds the body c
Holds(s, k, c) == k \in DOMAIN s /\ s[k] = c

\* C9: for a # b, Rename issues its DELETE only as the second call, after a
\* COPY that succeeded; between the two calls both keys hold the original
\* content, and when Rename succeeds b holds it and a is absent
C9_RenameCopyThenDelete ==
    [][/\ (last'.op = "Rename") =>
              \A i \in 1..Len(last'.calls) :
                  last'.calls[i].op = "DELETE" =>
                      i = 2 /\ last'.calls[1].op = "COPY" /\ last'.calls[1].res = "ok"
       /\ rn'.pc = "copied" =>
              /\ Holds(store', S3Key(rn'.old), rn'.orig)
              /\ Holds(store', S3Key(rn'.new), rn'.orig)
       /\ (rn.pc = "copied" /\ last'.op = "Rename" /\ last'.err = "nil") =>
              /\ Holds(store', S3Key(rn.new), rn.orig)
              /\ S3Key(rn.old) \notin DOMAIN store']_vars

\* between the COPY and the DELETE an observer finds the file under its new
\* name while the old name still exists
C9_Witness ==
    /\ rn.pc = "copied"
    /\ last.op = "Stat"
    /\ last.name = rn.new
    /\ last.err = "nil"
    /\ Holds(store, S3Key(rn.old), rn.orig)

\* a Rename has succeeded: the new name holds a body and the old name is gone
C9_WitnessDone ==
    /\ last.op = "Rename"
    /\ last.name # last.arg
    /\ last.err = "nil"
    /\ S3Key(last.arg) \in DOMAIN store
    /\ S3Key(last.name) \notin DOMAIN store

\* the prefix of the keys of directory name: its placeholder and descendants
DirPrefix(name) == trimLeadingSlash(Clean(name)) \o PathSeparator

\* the last operation is a RemoveAll of a directory, all of whose calls
\* succeeded
RemovedAll ==
    /\ last.op = "RemoveAll"
    /\ last.pre.flag
    /\ last.err = "nil"
    /\ AllOk(last.calls)

\* C10: after RemoveAll(d) of a directory with every storage call
\* succeeding, no descendant key of d and no placeholder of d is left, and
\* Stat(d) and Open(d) fail with not-exist
C10_RemoveAllRemovesTree ==
    RemovedAll =>
        /\ \A k \in DOMAIN store : ~HasPrefix(k, DirPrefix(last.name))
        /\ Stat(NoFail(1), last.name).err = "notexist"
        /\ Open(NoFail(1), last.name).err = "notexist"

\* the keys alone, for names without a trailing separator
KeysRemovedPlainName ==
    (RemovedAll /\ ~hasTrailingSlash(last.name)) =>
        \A k \in DOMAIN store : ~HasPrefix(k, DirPrefix(last.name))

\* the PUT calls of the last operation
Puts == CallsOf(last.calls, "PUT")

\* the last operation issued one PUT, of the bytes written to the handle, to
\* the key of the handle
OnePutOfWritten ==
    /\ Len(last.calls) = 1
    /\ last.calls[1].op = "PUT"
    /\ last.calls[1].key = last.name
    /\ last.calls[1].body = ghost.written

\* C2 as stated: Write issues no storage call; Close on a handle with a write
\* buffer issues exactly one PUT to the key of the handle with the bytes
\* written, in order; Close on a handle without a write buffer issues no PUT
C2_OnePutAtClose ==
    /\ last.op = "Write" => last.calls = <<>>
    /\ last.op = "Close" =>
           IF last.pre.hadBuf THEN OnePutOfWritten ELSE Puts = <<>>

\* C2, amended: as C2 for a handle whose offset is zero; at any other offset
\* Close issues no PUT
C2_OnePutAtCloseAtOffsetZero ==
    /\ last.op = "Write" => last.calls = <<>>
    /\ last.op = "Close" =>
           IF last.pre.hadBuf /\ last.pre.offset = 0 THEN OnePutOfWritten ELSE Puts = <<>>

\* a handle written twice was closed, and its PUT stored both chunks
C2_Witness ==
    /\ last.op = "Close"
    /\ last.pre.hadBuf
    /\ Len(ghost.written) = MaxBody
    /\ OnePutOfWritten
    /\ last.err = "nil"
    /\ store[S3Key(last.name)] = ghost.written

\* a handle holding only the empty buffer of its creation was closed
C2_WitnessEmpty ==
    /\ last.op = "Close"
    /\ last.pre.hadBuf
    /\ ghost.written = <<>>
    /\ OnePutOfWritten
    /\ last.err = "nil"

\* the reader of the handle has read, from offset zero to the end of the
\* stream, an object that the ledger knows
ReadToEnd ==
    /\ ghost.via = "Open"
    /\ ghost.src.has
    /\ ghost.fresh
    /\ ghost.eof

\* p was written whole as rt[p]: Stat reports a file of that size
StatRoundTrip(p) ==
    Then(Stat(NoFail(1), p), LAMBDA st :
        st.err = "nil" /\ ~st.fi.directory /\ st.fi.sizeInBytes = Len(rt[p]))

\* C1 as stated: for every path p written whole (Create, Write..., Close)
\* with content c, Stat(p) reports a file of size Len(c), Open(p) succeeds
\* and reading the new handle to the end of the stream yields c
C1_RoundTrip ==
    /\ \A p \in DOMAIN rt : StatRoundTrip(p) /\ Open(NoFail(1), p).err = "nil"
    /\ ReadToEnd => ghost.got = ghost.src.c

\* C1, amended: the round trip for every path without a trailing separator
C1_RoundTripOfFileNames ==
    /\ \A p \in DOMAIN rt :
           ~hasTrailingSlash(p) => StatRoundTrip(p) /\ Open(NoFail(1), p).err = "nil"
    /\ (ReadToEnd /\ ~hasTrailingSlash(file.f.name)) => ghost.got = ghost.src.c

\* a text of two bytes was read back whole, in more than one Read
C1_Witness ==
    /\ ReadToEnd
    /\ ~hasTrailingSlash(file.f.name)
    /\ Len(ghost.src.c) = MaxBody
    /\ ghost.got = ghost.src.c
    /\ last.op = "Read"
    /\ last.calls = <<>>

\* the keys deleted by the successful DELETE calls of a log
Deleted(calls) ==
    {S3Key(calls[i].key) : i \in {j \in 1..Len(calls) : calls[j].op = "DELETE" /\ calls[j].res = "ok"}}

\* a call of the last RemoveAll failed
RemoveAllFailed(l) == l.op = "RemoveAll" /\ ~AllOk(l.calls)

\* C11: when a LIST or DELETE of RemoveAll fails, at any level of the
\* recursion, RemoveAll returns that error, the failing call is the last call
\* it issues, and the store is the store it started with less the keys of the
\* DELETE calls that succeeded before
C11_RemoveAllAbortsOnFailure ==
    [][RemoveAllFailed(last') =>
          /\ last'.err = "transport"
          /\ last'.calls[Len(last'.calls)].res = "fail"
          /\ \A i \in 1..(Len(last'.calls) - 1) : last'.calls[i].res = "ok"
          /\ \A i \in 1..Len(last'.calls) : last'.calls[i].op \in {"LIST", "DELETE"}
          /\ store' = [k \in (DOMAIN store) \ Deleted(last'.calls) |-> store[k]]]_vars

\* a DELETE of RemoveAll failed after a LIST of a subdirectory and a DELETE
\* that succeeded, with keys left in the store
C11_Witness ==
    /\ RemoveAllFailed(last)
    /\ last.calls[Len(last.calls)].op = "DELETE"
    /\ Len(CallsOf(last.calls, "LIST")) >= 2
    /\ Deleted(last.calls) # {}
    /\ \E k \in DOMAIN store : HasPrefix(k, DirPrefix(last.name))

\* the LIST of a subdirectory failed
C11_WitnessList ==
    /\ RemoveAllFailed(last)
    /\ Len(last.calls) >= 2
    /\ last.calls[Len(last.calls)].op = "LIST"

\* the error of the Stat that Remove starts with, read from the log of the
\* Remove and the store it started on
RemoveStatErr(l, s) ==
    IF \E i \in 1..Len(l.calls) : l.calls[i].op \in {"HEAD", "LIST"} /\ l.calls[i].res = "fail"
    THEN "transport"
    ELSE Stat(World(s, 0, maxObjectsPerRequest), l.name).err

\* Stat reports a file at p
IsFilePath(s, p) ==
    Then(Stat(World(s, 0, maxObjectsPerRequest), p), LAMBDA st : st.err = "nil" /\ ~st.fi.directory)

\* the Stat and the DELETE of Remove: a failing Stat is returned with no
\* DELETE and the store as it was, otherwise there is exactly one DELETE
RemoveStatThenDelete(l, s, t) ==
    /\ l.calls # <<>> /\ l.calls[1].op = "HEAD"
    /\ RemoveStatErr(l, s) # "nil" =>
           /\ l.err = RemoveStatErr(l, s)
           /\ CallsOf(l.calls, "DELETE") = <<>>
           /\ t = s
    /\ RemoveStatErr(l, s) = "nil" =>
           /\ Len(CallsOf(l.calls, "DELETE")) = 1
           /\ l.calls[Len(l.calls)].op = "DELETE"

\* C12: Remove(p) first Stats p; when Stat fails Remove returns that error,
\* issues no DELETE and leaves the store unchanged; otherwise it issues
\* exactly one DELETE, and after a successful Remove(p) of a file path p,
\* Open(p) fails with not-exist
C12_StrictRemove ==
    [][last'.op = "Remove" =>
          /\ RemoveStatThenDelete(last', store, store')
          /\ (last'.err = "nil" /\ IsFilePath(store, last'.name)) =>
                 Open(World(store', 0, maxObjectsPerRequest), last'.name).err = "notexist"]_vars

\* the Stat-then-DELETE order of Remove alone
RemoveStatThenDeleteAlways ==
    [][last'.op = "Remove" => RemoveStatThenDelete(last', store, store')]_vars

\* Open after Remove of a file path no stored key has as a string prefix
RemoveThenOpenWithoutSibling ==
    [][(last'.op = "Remove" /\ last'.err = "nil" /\ IsFilePath(store, last'.name)
          /\ \A k \in DOMAIN store' : ~HasPrefix(k, trimLeadingSlash(Clean(last'.name)))) =>
          Open(World(store', 0, maxObjectsPerRequest), last'.name).err = "notexist"]_vars

\* q occurs in t as a run of consecutive entries
IsInfix(q, t) ==
    \E i \in 0..(Len(t) - Len(q)) : SubSeq(t, i + 1, i + Len(q)) = q

\* q is the end of t
IsSuffix(q, t) ==
    Len(q) <= Len(t) /\ SubSeq(t, Len(t) - Len(q) + 1, Len(t)) = q

\* a Readdir(n) with n > 0
PagedReaddir(l) == l.op = "Readdir" /\ l.n > 0

\* the full listing of the directory of the handle
FullListing(f, s) == Readdir(f, World(s, 0, maxObjectsPerRequest), 0).fis

\* C13: Readdir(n) with n > 0 returns at most n entries and never an empty
\* slice with a nil error; of two successive calls on one handle the second
\* returns the entries of the full listing that follow those of the first,
\* or io.EOF when the first reached the end of the listing
C13_ReaddirPaging ==
    [][PagedReaddir(last') =>
          /\ Len(last'.data) <= last'.n
          /\ ~(last'.data = <<>> /\ last'.err = "nil")
          /\ (PagedReaddir(last) /\ last.err = "nil" /\ AllOk(last'.calls)) =>
                 IF IsSuffix(last.data, FullListing(file.f, store))
                 THEN last'.err = "eof"
                 ELSE /\ last'.err = "nil"
                      /\ IsInfix(last.data \o last'.data, FullListing(file.f, store))]_vars

\* the size of the slices alone
ReaddirAtMostN ==
    PagedReaddir(last) => Len(last.data) <= last.n

\* two successive Readdir(1) on a directory of two entries returned the same
\* entry
C13_SameSliceTwice ==
    [][~(/\ PagedReaddir(last) /\ PagedReaddir(last')
         /\ last.err = "nil" /\ last'.err = "nil"
         /\ last.n = 1 /\ last'.n = 1
         /\ Len(FullListing(file.f, store)) = 2
         /\ last.data # <<>> /\ last'.data = last.data)]_vars

\* the immediate children of directory name in store s, as (name, directory,
\* size): the files stored directly beneath it and its immediate
\* subdirectories
Children(s, name) ==
    LET pre == DirPrefix(name)
        below == {k \in DOMAIN s : HasPrefix(k, pre) /\ k # pre}
        rest(k) == SubSeq(k, Len(pre) + 1, Len(k))
        cut(k) == FirstSlash(rest(k), 1)
    IN  {IF cut(k) = 0
         THEN [name |-> rest(k), directory |-> FALSE, sizeInBytes |-> Len(s[k])]
         ELSE [name |-> SubSeq(rest(k), 1, cut(k) - 1), directory |-> TRUE, sizeInBytes |-> 0] : k \in below}

\* the entries of a listing as (name, directory, size)
Entries(fis) ==
    {[name |-> fis[i].name, directory |-> fis[i].directory, sizeInBytes |-> fis[i].sizeInBytes] :
        i \in 1..Len(fis)}

\* a Readdir(n) with n <= 0, all of whose calls succeeded
ReaddirWhole(l) == l.op = "Readdir" /\ l.n <= 0 /\ AllOk(l.calls)

\* C14: Readdir(n) with n <= 0 on a directory handle returns, with a nil
\* error, exactly one entry per immediate child of the directory: a file
\* entry with base name and size per object directly beneath it, a directory
\* entry per immediate subdirectory, nothing for its own placeholder and
\* nothing for deeper descendants
C14_ReaddirAllIsChildren ==
    ReaddirWhole(last) =>
        /\ last.err = "nil"
        /\ Entries(last.data) = Children(store, last.name)
        /\ Len(last.data) = Cardinality(Children(store, last.name))

\* C14 for handles whose name has no trailing separator
C14_ReaddirAllIsChildrenOfPlainName ==
    (ReaddirWhole(last) /\ ~hasTrailingSlash(last.name)) =>
        /\ last.err = "nil"
        /\ Entries(last.data) = Children(store, last.name)
        /\ Len(last.data) = Cardinality(Children(store, last.name))

\* a directory with its placeholder, a file and a subdirectory that exists
\* only through a deeper key was listed whole, in pages of one key
C14_Witness ==
    /\ ReaddirWhole(last)
    /\ last.name = <<"/", "a">>
    /\ DOMAIN store = { <<"a", "/">>, <<"a", "/", "a">>, <<"a", "/", "b", "/", "a">> }
    /\ Len(last.calls) = 3
    /\ Len(last.data) = 2

\* a ListObjects without a cap, all of whose calls succeeded
ListedWhole(l) == l.op = "ListObjects" /\ l.n <= 0 /\ AllOk(l.calls) /\ ~l.pre.hadBuf

\* the listing of the last ListObjects as the store delivers it in one page
Unpaginated(l, s) ==
    ListObjects(WorldOrder(s, 0, maxObjectsPerRequest, l.pre.flag, FALSE), l.name, l.arg.delim, l.n,
                l.arg.filesOnly).fis

\* C15: a listing delivered in several truncated pages yields the same
\* entries in the same order as the listing delivered in one page
C15_PaginationEquivalence ==
    ListedWhole(last) => last.data = Unpaginated(last, store)

\* the entries alone, without their order and number
SameEntriesAnyPaging ==
    ListedWhole(last) =>
        {last.data[i] : i \in 1..Len(last.data)} =
            {Unpaginated(last, store)[i] : i \in 1..Len(Unpaginated(last, store))}

\* the order and number of the entries of the delimited listing
DelimitedSameAnyPaging ==
    (ListedWhole(last) /\ last.arg.delim) => last.data = Unpaginated(last, store)

\* a ListObjects with a cap, against a server that truncates only pages that
\* leave keys behind
Capped(l) == l.op = "ListObjects" /\ l.n > 0 /\ ~l.pre.hadBuf

\* C16: ListObjects with max > 0 returns at most max entries, and each LIST
\* it issues carries a MaxKeys of at least 1 and at most the allowance left,
\* which starts at max and does not grow
C16_ResultCap ==
    Capped(last) =>
        /\ Len(last.data) <= last.n
        /\ \A i \in 1..Len(last.calls) :
               /\ last.calls[i].n >= 1
               /\ last.calls[i].n <= (IF i = 1 THEN last.n ELSE last.calls[i - 1].n)

\* the number of entries of the delimited listing alone
DelimitedAtMostMax ==
    (Capped(last) /\ last.arg.delim) => Len(last.data) <= last.n

\* a LIST asking for no keys at all was issued
C16_ZeroMaxKeysIssued ==
    ~(Capped(last) /\ last.arg.delim /\ \E i \in 1..Len(last.calls) : last.calls[i].n = 0)

\* the recursive listing returned more entries than max
C16_MoreThanMax ==
    ~(Capped(last) /\ Len(last.data) > last.n)

\* C17: ListObjects issues no LIST after a page that was not truncated and
\* none once the entries returned have reached max (the allowance left being
\* zero or less), and it ends against every server, also one that reports
\* every page as truncated
C17_PaginationStops ==
    last.op = "ListObjects" =>
        /\ \A i \in 1..(Len(last.calls) - 1) : last.calls[i].more
        /\ \A i \in 2..Len(last.calls) : last.n > 0 => last.calls[i].n > 0
        /\ last.err # "diverges"

\* no LIST follows a page that was not truncated
StopsWhenNotTruncated ==
    last.op = "ListObjects" => \A i \in 1..(Len(last.calls) - 1) : last.calls[i].more

\* the listing ends against a server that truncates only pages that leave
\* keys behind
EndsOnFiniteListing ==
    (last.op = "ListObjects" /\ ~last.pre.hadBuf) => last.err # "diverges"

\* a page request of the last listing failed
ListFailed(l) == l.op \in {"ListObjects", "Readdir"} /\ ~AllOk(l.calls)

C18_WitnessReaddir ==
    /\ ListFailed(last)
    /\ last.op = "Readdir"
    /\ DOMAIN store = { <<"a", "/", "a">>, <<"a", "/", "b", "/", "a">> }
    /\ Len(last.calls) = 2

\* FileInfo.Path
Path(fi) == fi.parent \o fi.name

\* no two entries of a listing have the same path
NoDuplicatePaths(fis) ==
    \A i \in 1..Len(fis), j \in 1..Len(fis) : Path(fis[i]) = Path(fis[j]) => i = j

\* a listing that succeeded against a server that truncates only pages that
\* leave keys behind
Listed(l) == l.op = "ListObjects" /\ l.err = "nil" /\ ~l.pre.hadBuf

\* C19: no two entries of a listing, delimited or recursive, in one page or
\* several, have the same full path; a synthesized directory appears once
C19_NoDuplicates ==
    Listed(last) => NoDuplicatePaths(last.data)

\* the delimited listing alone
DelimitedNoDuplicates ==
    (Listed(last) /\ last.arg.delim) => NoDuplicatePaths(last.data)

\* the recursive listing delivered in one page
RecursiveOnePageNoDuplicates ==
    (Listed(last) /\ ~last.arg.delim /\ Len(last.calls) = 1) => NoDuplicatePaths(last.data)

\* what callers see of Fs value i: its context, its table, the content types
\* it gives to files
FsView(h, i) ==
    [ctx |-> h.inst[i].ctx, table |-> MimeTable(h, i),
     types |-> [name \in MimeFiles |-> lookupContentType(h, i, name)]]

\* C20: WithContext and AddMimeTypes leave every Fs value that existed
\* before, the receiver among them, with its context and its MIME table, so
\* that no change made through one Fs value is visible through another
C20_DerivingLeavesOriginal ==
    [][\A i \in 1..Len(fss.inst) : FsView(fss', i) = FsView(fss, i)]_vars

\* WithContext alone
WithContextLeavesOriginal ==
    [][last'.op = "WithContext" => \A i \in 1..Len(fss.inst) : FsView(fss', i) = FsView(fss, i)]_vars

\* the context alone
ContextOfOriginalKept ==
    [][\A i \in 1..Len(fss.inst) : fss'.inst[i].ctx = fss.inst[i].ctx]_vars

\* C21: in every interleaving of operations on Fs values that share a map,
\* no goroutine writes the map while another is about to read or write it
C21_NoConcurrentMapAccess ==
    \A t \in Threads : ~Racing(fss, conc, t)

\* no access to a map ended the program
NeverCrashed == ~conc.crashed

\* WithContext and Close alone: goroutines that only read the map
OnlyReadersNeverRace ==
    (\A t \in Threads : conc.th[t].pc # "add") => \A t \in Threads : ~Racing(fss, conc, t)

\* an assignment of AddMimeTypes and the read of lookupContentType in a Close
\* are about to touch the same map
C21_WriteDuringLookup ==
    ~(\E t \in Threads, u \in Threads :
          /\ conc.th[t].pc = "lookup" /\ Racing(fss, conc, t)
          /\ conc.th[u].pc = "add")

\* the public operations of Fs whose storage failures are to be reported
Reporting == {"Stat", "Mkdir", "Remove", "RemoveAll", "Rename", "Open", "Create"}

\* C22: when a storage call made for Create, Open, Stat, Mkdir, MkdirAll,
\* Remove, RemoveAll or Rename fails with something other than not-found,
\* the operation returns a non-nil error
C22_NoSwallowedFailure ==
    (last.op \in Reporting /\ \E i \in 1..Len(last.calls) : last.calls[i].res = "fail")
        => last.err # "nil"

\* the same for the operations other than Mkdir
C22_OthersReport ==
    (last.op \in Reporting \ {"Mkdir"} /\ \E i \in 1..Len(last.calls) : last.calls[i].res = "fail")
        => last.err # "nil"

\* the methods of a handle that read, write or move it
HandleIO == {"Read", "Write", "ReadAt", "WriteAt", "Seek", "Readdir"}

\* C23: once the handle is closed, every Read, Write, WriteString, ReadAt,
\* WriteAt, Seek and Readdir on it is a fatal usage error that leaves the
\* handle as it was and issues no storage call
C23_NoIOAfterClose ==
    [][(file.alloc /\ file.f.closed /\ last'.op \in HandleIO)
          => (last'.err = "panic" /\ file' = file /\ last'.calls = <<>>)]_vars

\* the same for Read and Write alone, which test the closed flag first
C23_ReadWriteAfterClose ==
    [][(file.alloc /\ file.f.closed /\ last'.op \in {"Read", "Write"})
          => (last'.err = "panic" /\ file' = file /\ last'.calls = <<>>)]_vars

\* C24: whatever Read, Write, Seek, ReadAt, WriteAt and Close calls a handle
\* has seen, at most one of its read stream and its write buffer is non-nil
C24_ReadXorWrite == file.alloc => (file.f.readCloser.nil \/ file.f.writeBuf.nil)

\* the same for handles that have been read only, or written only
C24_OneDirection ==
    [][(file'.alloc /\ ~(file'.f.readCloser.nil \/ file'.f.writeBuf.nil))
          => \/ (last'.op = "Write" /\ ~file.f.readCloser.nil)
             \/ (last'.op \in {"Read", "ReadAt"} /\ ~file.f.writeBuf.nil)
             \/ ~(file.f.readCloser.nil \/ file.f.writeBuf.nil)]_vars

\* the calls of the last operation that address one object by key
Keyed(ops) == { i \in 1..Len(last.calls) : last.calls[i].op \in ops }

\* C25: the HEAD of Open, Create and Stat, the GET of Read, the PUT of Close
\* and the DELETE of Remove carry the path they were given as their key
C25_KeysVerbatim ==
    /\ last.op \in {"Stat", "Open", "Create", "Remove"}
           => \A i \in Keyed({"HEAD", "DELETE"}) : last.calls[i].key = last.name
    /\ last.op \in {"Read", "Close"}
           => \A i \in Keyed({"GET", "PUT"}) : last.calls[i].key = last.name
    /\ (last.op \in {"Open", "Create"} /\ last.err = "nil") => file.f.name = last.name

\* the same for the paths path.Clean leaves as they are
C25_CleanKeysVerbatim == last.name = Clean(last.name) => C25_KeysVerbatim

\* the GET calls of an operation
Gets(calls) == { i \in 1..Len(calls) : calls[i].op = "GET" }

\* Open issues no GET; a Read with a non-empty buffer on a handle that is not
\* closed issues one GET, and nothing else, iff no stream is open; a Read with
\* an empty buffer returns (0, nil) without any call
ReadOnDemand ==
    /\ last'.op = "Open" => Gets(last'.calls) = {}
    /\ (last'.op = "Read" /\ last'.arg > 0 /\ ~file.f.closed)
           => IF file.f.readCloser.nil
              THEN Len(last'.calls) = 1 /\ Gets(last'.calls) = {1}
              ELSE last'.calls = <<>>
    /\ (last'.op = "Read" /\ last'.arg = 0 /\ ~file.f.closed)
           => (last'.calls = <<>> /\ last'.n = 0 /\ last'.err = "nil" /\ file' = file)

\* C26 as amended: reads are served on demand, and once a GET of a run of
\* consecutive Reads has succeeded the rest of the run issues no GET
C26_ReadOnDemandAfterSuccess ==
    [][/\ ReadOnDemand
       /\ (last.op = "Read" /\ last'.op = "Read" /\ file.alloc /\ ~file.f.readCloser.nil)
              => Gets(last'.calls) = {}]_vars

\* C26: reads are served on demand, and a run of consecutive Reads with
\* non-empty buffers issues one GET only
C26_ReadOnDemand ==
    [][/\ ReadOnDemand
       /\ (last.op = "Read" /\ Gets(last.calls) # {} /\ last'.op = "Read")
              => Gets(last'.calls) = {}]_vars

\* a Read that fetched the object, and one served by the stream already open
C26_Witness ==
    /\ last.op = "Read" /\ last.arg > 0 /\ last.n > 0
    /\ last.pre.hadBuf /\ ~last.pre.flag /\ last.calls = <<>>

C26_WitnessGet ==
    /\ last.op = "Read" /\ last.arg > 0 /\ last.n > 0
    /\ ~last.pre.hadBuf /\ Gets(last.calls) = {1} /\ last.calls[1].res = "ok"

\* the bytes the open stream has handed out or skipped
Consumed == Len(ghost.src.c) - Len(file.f.readCloser.rest)

\* C27: while a stream is open on a read handle its offset is the number of
\* bytes consumed from the stream, and a Read returns the bytes of the object
\* that start at the offset it found
C27_OffsetTracksStream ==
    /\ (file.alloc /\ ~file.f.readCloser.nil /\ ghost.src.has) => file.f.offset = Consumed
    /\ (last.op = "Read" /\ last.n > 0 /\ ghost.src.has)
           => /\ last.pre.offset + last.n <= Len(ghost.src.c)
              /\ last.data = SubSeq(ghost.src.c, last.pre.offset + 1, last.pre.offset + last.n)

\* a Read on a handle whose offset is the length of the object hands out a
\* byte of the object: the skip to the offset fell short
C27_ReadElsewhere ==
    ~(/\ last.op = "Read" /\ last.n > 0 /\ ghost.src.has
      /\ last.pre.offset = Len(ghost.src.c))

\* ReadAt moved the handle to off and read from there: the offset is off plus
\* the bytes returned, and when the Seek inside it fails no Read is attempted
ReadAtIsSeekThenRead ==
    last.op = "ReadAt"
        => IF last.pre.hadBuf
           THEN last.err = "panic" /\ last.calls = <<>> /\ last.n = 0
           ELSE file.f.offset = last.arg + last.n

\* C28: ReadAt(p, off) is Seek(off, from-start) then Read(p): it returns the
\* bytes of the object that start at off and leaves the offset at off + n; if
\* the Seek fails no Read is attempted
C28_ReadAt ==
    /\ ReadAtIsSeekThenRead
    /\ (last.op = "ReadAt" /\ last.n > 0 /\ ghost.src.has)
           => /\ last.arg + last.n <= Len(ghost.src.c)
              /\ last.data = SubSeq(ghost.src.c, last.arg + 1, last.arg + last.n)

\* a ReadAt that read bytes and left the offset past them
C28_ReadAtMoved ==
    ~(last.op = "ReadAt" /\ last.n > 0 /\ last.arg > 0 /\ last.pre.offset = 0
      /\ file.f.offset = last.arg + last.n)

\* C29: a handle that holds written bytes at a non-zero offset never uploads
\* them: its Close is a fatal usage error, issues no PUT and stores nothing
C29_WritesOnlyFromOffsetZero ==
    [][(file.alloc /\ ~file.f.writeBuf.nil /\ file.f.offset # 0 /\ last'.op = "Close")
          => (last'.err = "panic" /\ last'.calls = <<>> /\ store' = store)]_vars

\* a Close refused on a handle that was written to and then moved
C29_Witness ==
    /\ last.op = "Close" /\ last.err = "panic" /\ last.calls = <<>>
    /\ last.pre.hadBuf /\ last.pre.offset # 0 /\ ~last.pre.flag
    /\ ghost.written # <<>>
    /\ ~file.f.closed

\* WriteAt(p, 0) wrote len(p) bytes and left the buffer as Write(p) would
WroteAsWrite ==
    /\ last'.err = "nil"
    /\ last'.n = Len(last'.data)
    /\ file'.f.writeBuf = Write(file.f, last'.data).f.writeBuf

\* C30: WriteAt(p, 0) on an open handle at offset 0, from Create of a new
\* key, from Create of an existing key or after earlier Writes, writes
\* len(p) bytes and changes the buffer as Write(p) does
C30_WriteAtZero ==
    [][(/\ file.alloc /\ ~file.f.closed /\ file.f.offset = 0
        /\ last'.op = "WriteAt" /\ last'.arg = 0) => WroteAsWrite]_vars

\* the same for handles that hold no write buffer yet
C30_WriteAtZeroUnwritten ==
    [][(/\ file.alloc /\ ~file.f.closed /\ file.f.offset = 0 /\ file.f.writeBuf.nil
        /\ last'.op = "WriteAt" /\ last'.arg = 0) => WroteAsWrite]_vars

\* a WriteAt(p, 0) refused on a handle from Create of a new key
C30_RefusedAfterCreate ==
    ~(/\ last.op = "WriteAt" /\ last.arg = 0 /\ last.err = "panic"
      /\ last.pre.hadBuf /\ last.pre.offset = 0 /\ ~last.pre.flag
      /\ ghost.via = "Create" /\ ghost.written = <<>>)

\* the handle Create returns for a name Stat does not find
CreatedEmpty(f, name) == f = [NewFile(name) EXCEPT !.writeBuf = [nil |-> FALSE, bytes |-> <<>>]]

\* C31: Create(p) asks Stat first and issues no PUT itself; when Stat says
\* not-exist it returns a handle whose Close, without a Write, stores a
\* zero-length object at p; any other failure is returned and no handle made
C31_Create ==
    [][/\ last'.op = "Create"
           => /\ last'.calls # <<>> /\ last'.calls[1].op = "HEAD"
              /\ \A i \in 1..Len(last'.calls) : last'.calls[i].op \in {"HEAD", "LIST"}
              /\ store' = store
              /\ IF \E i \in 1..Len(last'.calls) : last'.calls[i].res = "fail"
                 THEN last'.err = "transport" /\ file' = file
                 ELSE /\ last'.err = "nil" /\ file'.alloc
                      /\ Stat(NoFail(maxObjectsPerRequest), last'.name).err = "notexist"
                             => CreatedEmpty(file'.f, last'.name)
       /\ (/\ last'.op = "Close" /\ last'.err = "nil"
           /\ file.alloc /\ CreatedEmpty(file.f, file.f.name))
           => /\ S3Key(file.f.name) \in DOMAIN store'
              /\ store'[S3Key(file.f.name)] = <<>>]_vars

\* a handle from Create of a missing name, closed without a Write, left a
\* zero-length object
C31_Witness ==
    /\ last.op = "Close" /\ last.err = "nil" /\ ghost.via = "Create"
    /\ last.pre.hadBuf /\ last.pre.offset = 0 /\ ghost.written = <<>>
    /\ Len(last.calls) = 1 /\ last.calls[1].op = "PUT" /\ last.calls[1].body = <<>>
    /\ store[S3Key(last.name)] = <<>>

\* a Create that returned the failure of its HEAD
C31_WitnessFailed ==
    /\ last.op = "Create" /\ last.err = "transport"
    /\ Len(last.calls) = 1 /\ last.calls[1].res = "fail"

\* the key of the placeholder of a directory name
PlaceholderKey(name) == Clean(name) \o PathSeparator

\* C32: Mkdir(p) and MkdirAll(p) do the same: one PUT of a zero-length
\* object at the cleaned path followed by the separator and no other call,
\* no object for an ancestor; made again, the key set stays as it is
C32_MkdirAll ==
    [][last'.op \in {"Mkdir", "MkdirAll"}
          => /\ Len(last'.calls) = 1
             /\ last'.calls[1].op = "PUT"
             /\ last'.calls[1].key = PlaceholderKey(last'.name)
             /\ last'.calls[1].body = <<>>
             /\ last'.calls[1].res = "ok"
                    => /\ last'.err = "nil"
                       /\ store' = PutKey(store, S3Key(PlaceholderKey(last'.name)), <<>>)
                       /\ S3Key(PlaceholderKey(last'.name)) \in DOMAIN store
                              => DOMAIN store' = DOMAIN store
             /\ last'.calls[1].res # "ok" => store' = store
             /\ \A fail \in 0..1 :
                    Mkdir(World(store, fail, maxObjectsPerRequest), last'.name)
                        = MkdirAll(World(store, fail, maxObjectsPerRequest), last'.name)]_vars

\* MkdirAll of a nested name stored its placeholder and nothing for the ancestor
C32_Witness ==
    /\ last.op = "MkdirAll" /\ last.err = "nil" /\ last.name = <<"/", "a", "/", "b">>
    /\ Len(last.calls) = 1 /\ last.calls[1].res = "ok"
    /\ DOMAIN store = {<<"a", "/", "b", "/">>}
    /\ store[<<"a", "/", "b", "/">>] = <<>>

\* the operations that hand the caller another handle
Opening == {"Open", "Create", "OpenFile"}

\* C33: a handle opens a stream only when it holds none, gives it up only in
\* an absolute Seek (alone or inside ReadAt and WriteAt) or in Close, and
\* holds no stream after Close, however Close ends
C33_StreamRelease ==
    [][(file.alloc /\ last'.op \notin Opening)
          => /\ (~file.f.readCloser.nil /\ file'.f.readCloser.nil)
                    => last'.op \in {"Seek", "ReadAt", "WriteAt", "Close"}
             /\ (last'.op = "Read" /\ ~file.f.readCloser.nil) => Gets(last'.calls) = {}
             /\ Cardinality(Gets(last'.calls)) <= 1
             /\ last'.op = "Close" => file'.f.readCloser.nil]_vars

\* a Close that faulted on the offset with a stream open, and released it
C33_Witness ==
    /\ last.op = "Close" /\ last.err = "panic" /\ last.arg = TRUE
    /\ last.pre.hadBuf /\ last.pre.offset # 0
    /\ file.f.readCloser.nil /\ ~file.f.closed

\* a Close whose PUT failed with a stream open, and released it
C33_WitnessFailedPut ==
    /\ last.op = "Close" /\ last.err = "transport" /\ last.arg = TRUE
    /\ file.f.readCloser.nil /\ file.f.closed

\* s holds a separator
HasSlash(s) == \E i \in 1..Len(s) : s[i] = "/"

\* C34: a descriptor built by NewFileInfo or NewDirectoryInfo from any name
\* has a parent that is empty or ends with the separator and a base name
\* without separator, its Path is parent + name, and a directory descriptor
\* has size 0 and the zero modification time
C34_DescriptorInvariant ==
    last.op \in {"NewFileInfo", "NewDirectoryInfo"}
        => /\ last.fi.parent = <<>> \/ hasTrailingSlash(last.fi.parent)
           /\ ~HasSlash(last.fi.name)
           /\ Path(last.fi) = last.fi.parent \o last.fi.name
           /\ Path(last.fi) = trimTrailingSlash(last.name)
           /\ last.fi.depth = depth(last.fi.parent)
           /\ last.fi.directory = (last.op = "NewDirectoryInfo")
           /\ last.fi.directory => (last.fi.sizeInBytes = 0 /\ last.fi.modTime = 0)
           /\ ~last.fi.directory => (last.fi.sizeInBytes = last.n /\ last.fi.modTime = last.arg)

\* the descriptor of a nested directory named with trailing separators
C34_Witness ==
    /\ last.op = "NewDirectoryInfo" /\ last.name = <<"/", "a", "/", "/">>
    /\ last.fi.parent = <<"/">> /\ last.fi.name = <<"a">>

\* the descriptor of a file named without any separator
C34_WitnessPlain ==
    /\ last.op = "NewFileInfo" /\ last.name = <<"a", "b">>
    /\ last.fi.parent = <<>> /\ last.fi.name = <<"a", "b">> /\ last.fi.sizeInBytes = MaxBody

\* the keys of the directory a name denotes: its placeholder and the keys below it
Below(name) == { k \in DOMAIN store : HasPrefix(k, trimLeadingSlash(Clean(name)) \o PathSeparator) }

\* C35: Stat(p) reports a directory only for the root or empty path, or when
\* some key is p followed by the separator or begins with it; a key that has
\* p as a mere string prefix does not make p a directory
C35_DirectoryOnlyBySeparator ==
    (last.op = "Stat" /\ last.err = "nil" /\ last.fi.directory)
        => \/ last.name = <<>>
           \/ Clean(last.name) = PathSeparator
           \/ Below(last.name) # {}

\* the same when no key has the path as a prefix without being below it
C35_DirectoryWithoutSiblings ==
    (/\ last.op = "Stat" /\ last.err = "nil" /\ last.fi.directory
     /\ \A k \in DOMAIN store : HasPrefix(k, trimLeadingSlash(Clean(last.name))) => k \in Below(last.name))
        => \/ last.name = <<>>
           \/ Clean(last.name) = PathSeparator
           \/ Below(last.name) # {}

\* the PUT calls of an operation
PutsOf(calls) == { i \in 1..Len(calls) : calls[i].op = "PUT" }

\* C36: a handle issues at most one PUT in all: only Close uploads, only on
\* a handle not yet closed, and it closes the handle and drops the buffer
\* even when the PUT fails and the error is returned; a closed handle stays
\* closed, and its later Close issues no call and returns nil
C36_AtMostOnceUpload ==
    [][(file.alloc /\ last'.op \notin Opening)
          => /\ file.f.closed => file'.f.closed
             /\ last'.op \in HandleIO => PutsOf(last'.calls) = {}
             /\ last'.op = "Close"
                    => /\ Cardinality(PutsOf(last'.calls)) <= 1
                       /\ PutsOf(last'.calls) # {}
                              => /\ ~file.f.closed
                                 /\ file'.f.closed /\ file'.f.writeBuf.nil
                                 /\ last'.calls[1].res = "fail"
                                        => (last'.err = "transport" /\ store' = store)
                       /\ file.f.closed => (last'.calls = <<>> /\ last'.err = "nil")]_vars

\* the second Close of a handle from Create whose upload had failed
C36_Witness ==
    /\ last.op = "Close" /\ last.err = "nil" /\ last.calls = <<>> /\ last.pre.flag
    /\ ghost.via = "Create" /\ ghost.written # <<>>
    /\ file.f.closed /\ file.f.writeBuf.nil
    /\ store = EmptyStore

\* a Close whose PUT failed closed the handle and dropped the buffer
C36_WitnessFailed ==
    /\ last.op = "Close" /\ last.err = "transport" /\ last.pre.hadBuf
    /\ Len(last.calls) = 1 /\ last.calls[1].op = "PUT" /\ last.calls[1].res = "fail"
    /\ file.f.closed /\ file.f.writeBuf.nil

\* Stat, with no call failing, reports name as a directory in bucket b
IsDirectoryIn(b, name) ==
    \E st \in {Stat(World(b, 0, maxObjectsPerRequest), name)} : st.err = "nil" /\ st.fi.directory

\* a successful Remove step
Removed == last'.op = "Remove" /\ last'.err = "nil"

\* a successful Remove deletes at most the object at the key of its name
RemovesExactKeyOnly ==
    Removed => /\ DOMAIN store' \subseteq DOMAIN store
               /\ \A k \in DOMAIN store \ {S3Key(last'.name)} :
                      k \in DOMAIN store' /\ store'[k] = store[k]

C37_WitnessFile ==
    /\ last.op = "Remove" /\ last.err = "nil" /\ last.name = <<"/", "a">>
    /\ Len(last.calls) = 2 /\ last.calls[1].res = "ok" /\ last.calls[2].res = "ok"
    /\ DOMAIN store = {<<"a", "b">>}

\* C38: Create(p) on a key that exists returns a handle without write
\* buffer; the Close of a handle without buffer issues no PUT and changes no
\* object; when bytes were written, the object is those bytes after Close
C38_CreateDoesNotTruncate ==
    [][/\ (last'.op = "Create" /\ last'.err = "nil" /\ S3Key(last'.name) \in DOMAIN store)
              => file'.f = NewFile(last'.name)
       /\ (last'.op = "Close" /\ file.alloc /\ file.f.writeBuf.nil)
              => (last'.calls = <<>> /\ store' = store)
       /\ (last'.op = "Close" /\ file.alloc /\ ~file.f.writeBuf.nil /\ last'.err = "nil")
              => store' = PutKey(store, S3Key(file.f.name), file.f.writeBuf.bytes)]_vars

\* the same for names without a trailing separator
C38_PlainCreateDoesNotTruncate ==
    [][/\ (/\ last'.op = "Create" /\ last'.err = "nil" /\ S3Key(last'.name) \in DOMAIN store
           /\ ~hasTrailingSlash(last'.name))
              => file'.f = NewFile(last'.name)
       /\ (last'.op = "Close" /\ file.alloc /\ file.f.writeBuf.nil)
              => (last'.calls = <<>> /\ store' = store)
       /\ (last'.op = "Close" /\ file.alloc /\ ~file.f.writeBuf.nil /\ last'.err = "nil")
              => store' = PutKey(store, S3Key(file.f.name), file.f.writeBuf.bytes)]_vars

\* C39: RemoveAll(p) issues DELETE only for keys that begin with p followed
\* by the separator, and leaves every other key, the key p itself and the
\* keys of siblings sharing p as a string prefix included, as it is
C39_FrameOfRemoveAll ==
    [][last'.op = "RemoveAll"
          => /\ \A i \in 1..Len(last'.calls) :
                    last'.calls[i].op = "DELETE"
                        => HasPrefix(S3Key(last'.calls[i].key), DirPrefix(last'.name))
             /\ \A k \in DOMAIN store :
                    ~HasPrefix(k, DirPrefix(last'.name)) => (k \in DOMAIN store' /\ store'[k] = store[k])
             /\ DOMAIN store' \subseteq DOMAIN store]_vars

\* a RemoveAll that deleted the tree of a directory and left the object at
\* its very name and the sibling
C39_Witness ==
    /\ last.op = "RemoveAll" /\ last.err = "nil" /\ last.name = <<"/", "a">>
    /\ Cardinality(Deleted(last.calls)) >= 2
    /\ DOMAIN store = { <<"a">>, <<"a", "b">> }

====
